---------------------------- MODULE Spec2Model ----------------------------
(***************************************************************************)
(* Model of creditcard-mt940: bank exports (pandas DataFrames) are parsed  *)
(* row by row, passed through the per-bank business rules, and handed to   *)
(* the TransactionProcessor, which builds an AccountStatement.             *)
(*                                                                         *)
(* Text (descriptions, cells, references) is a sequence of one-character   *)
(* strings, so that lower(), substring tests, strip() and the parsers of   *)
(* dates and amounts are computed character by character as Python does.   *)
(* A Decimal is [c |-> coefficient, e |-> number of fractional digits],    *)
(* i.e. the value c * 10^-e, with Python's exponent rules for + - abs.     *)
(***************************************************************************)
EXTENDS Integers, Sequences, FiniteSets, TLC

VARIABLES
    bank,                    \* key of the parser in use
    df,                      \* the DataFrame pandas read: [columns, rows]
    pc,                      \* position in the running operation
    index,                   \* DataFrame row the raw loop is at (1-based)
    raw_transactions,        \* list built by _parse_raw_transactions
    i,                       \* cursor of _apply_business_rules (1-based)
    processed_transactions,  \* list built by _apply_business_rules / parse_file
    call,                    \* the processor call being served and its arguments
    outcome,                 \* what the call returned (or that it raised)
    validation,              \* what validate_file_format returned for df, if called
    now,                     \* the clock datetime.now() reads
    transaction_reference_counter,  \* MT940Formatter.transaction_reference_counter
    outputs                  \* the texts the formatter calls returned, oldest first

\* the clock and the formatter
formatter_vars == <<now, transaction_reference_counter, outputs>>

vars == <<bank, df, pc, index, raw_transactions, i, processed_transactions, call, outcome,
          validation, formatter_vars>>

---------------------------------------------------------------------------
(* Bounds of the model *)

\* rows of a file in the runs of one parser
MaxRows == 3

\* rows of a file in the runs of the TransactionProcessor
MaxProcRows == 2

---------------------------------------------------------------------------
(* Text *)

UpperChars == <<"A","B","C","D","E","F","G","H","I","J","K","L","M","N","O","P","Q","R","S","T","U","V","W","X","Y","Z">>
LowerChars == <<"a","b","c","d","e","f","g","h","i","j","k","l","m","n","o","p","q","r","s","t","u","v","w","x","y","z">>
DigitChars == <<"0","1","2","3","4","5","6","7","8","9">>

\* str.lower() on one character
LowerChar(ch) ==
    IF \E k \in 1..26 : UpperChars[k] = ch
    THEN LowerChars[CHOOSE k \in 1..26 : UpperChars[k] = ch]
    ELSE ch

\* str.upper() on one character
UpperChar(ch) ==
    IF \E k \in 1..26 : LowerChars[k] = ch
    THEN UpperChars[CHOOSE k \in 1..26 : LowerChars[k] = ch]
    ELSE ch

Lower(s) == [k \in 1..Len(s) |-> LowerChar(s[k])]
Upper(s) == [k \in 1..Len(s) |-> UpperChar(s[k])]

\* Python's  kw in s
Contains(s, kw) ==
    \E k \in 0..(Len(s) - Len(kw)) : SubSeq(s, k + 1, k + Len(kw)) = kw

\* str.replace(a, b) for a single character a and a replacement text b
RECURSIVE ReplaceChar(_, _, _)
ReplaceChar(s, a, b) ==
    IF s = <<>> THEN <<>>
    ELSE (IF Head(s) = a THEN b ELSE <<Head(s)>>) \o ReplaceChar(Tail(s), a, b)

RECURSIVE LStrip(_)
LStrip(s) == IF s # <<>> /\ Head(s) = " " THEN LStrip(Tail(s)) ELSE s

RECURSIVE RStrip(_)
RStrip(s) ==
    IF s # <<>> /\ s[Len(s)] = " " THEN RStrip(SubSeq(s, 1, Len(s) - 1)) ELSE s

\* str.strip()
Strip(s) == RStrip(LStrip(s))

IsDigit(ch) == \E k \in 1..10 : DigitChars[k] = ch
DigitVal(ch) == (CHOOSE k \in 1..10 : DigitChars[k] = ch) - 1
AllDigits(s) == \A k \in 1..Len(s) : IsDigit(s[k])

\* value of a run of decimal digits
RECURSIVE DigitsVal(_)
DigitsVal(s) ==
    IF s = <<>> THEN 0
    ELSE 10 * DigitsVal(SubSeq(s, 1, Len(s) - 1)) + DigitVal(s[Len(s)])

\* decimal digits of a natural number, as Python's str(n)
RECURSIVE NatStr(_)
NatStr(n) ==
    IF n < 10 THEN <<DigitChars[n + 1]>>
    ELSE NatStr(n \div 10) \o <<DigitChars[(n % 10) + 1]>>

\* positions of the character sep in s
Positions(s, sep) == {k \in 1..Len(s) : s[k] = sep}

\* str.split(sep): the pieces of s between the occurrences of sep
RECURSIVE Split(_, _)
Split(s, sep) ==
    IF Positions(s, sep) = {} THEN <<s>>
    ELSE LET p == CHOOSE k \in Positions(s, sep) : \A m \in Positions(s, sep) : k <= m
         IN  <<SubSeq(s, 1, p - 1)>> \o Split(SubSeq(s, p + 1, Len(s)), sep)

---------------------------------------------------------------------------
(* pandas cells *)

\* a missing cell (float NaN), a datetime cell of an Excel sheet (the atom
\* "datetime" followed by its ISO date); every other cell is the text str(cell) yields
NaN == <<"NaN">>
isna(cell) == cell = NaN
notna(cell) == cell # NaN
isinstance_datetime(cell) == cell # <<>> /\ Head(cell) = "datetime"

\* str(cell)
Str(cell) ==
    IF isna(cell) THEN <<"n","a","n">>
    ELSE IF isinstance_datetime(cell) THEN Tail(cell) \o <<" ","0","0",":","0","0",":","0","0">>
    ELSE cell

---------------------------------------------------------------------------
(* decimal.Decimal *)

Pow10(n) == IF n = 0 THEN 1 ELSE IF n = 1 THEN 10 ELSE IF n = 2 THEN 100 ELSE 1000

Dec(c, e) == [c |-> c, e |-> e]
Max(a, b) == IF a >= b THEN a ELSE b
Min(a, b) == IF a <= b THEN a ELSE b

\* a + b : the exponent of the result is the smaller exponent
DecAdd(a, b) ==
    LET e == Max(a.e, b.e)
    IN  Dec(a.c * Pow10(e - a.e) + b.c * Pow10(e - b.e), e)

\* -a, abs(a)
DecNeg(a) == Dec(0 - a.c, a.e)
DecAbs(a) == Dec(IF a.c < 0 THEN 0 - a.c ELSE a.c, a.e)

\* a == b, a > 0, a < 0 : numeric comparisons
DecEq(a, b) ==
    LET e == Max(a.e, b.e)
    IN  a.c * Pow10(e - a.e) = b.c * Pow10(e - b.e)
DecPos(a) == a.c > 0
DecNegative(a) == a.c < 0

\* Decimal(text): [ok |-> FALSE] stands for InvalidOperation.  The grammar is
\* [sign] digits [. digits]  with at least one digit; the text is stripped first.
\* The digits around the point, once split:
DecimalOfParts(neg, parts) ==
    LET ip    == parts[1]
        fp    == IF Len(parts) = 2 THEN parts[2] ELSE <<>>
        good  == /\ Len(parts) <= 2
                 /\ AllDigits(ip) /\ AllDigits(fp)
                 /\ Len(ip) + Len(fp) >= 1
        mag   == DigitsVal(ip) * Pow10(Len(fp)) + DigitsVal(fp)
    IN  IF good THEN [ok |-> TRUE, val |-> Dec(IF neg THEN 0 - mag ELSE mag, Len(fp))]
        ELSE [ok |-> FALSE]

\* the sign, then the digits
DecimalOfStripped(s) ==
    DecimalOfParts(s # <<>> /\ Head(s) = "-",
                   Split(IF s # <<>> /\ Head(s) \in {"-", "+"} THEN Tail(s) ELSE s, "."))

ParseDecimal(text) == DecimalOfStripped(Strip(text))
---------------------------------------------------------------------------
(* int(text) and datetime.strptime(text, format) *)

\* int(text): [ok |-> FALSE] stands for ValueError
ParseInt(text) ==
    LET s    == Strip(text)
        neg  == s # <<>> /\ Head(s) = "-"
        body == IF s # <<>> /\ Head(s) \in {"-", "+"} THEN Tail(s) ELSE s
    IN  IF body # <<>> /\ AllDigits(body)
        THEN [ok |-> TRUE, val |-> IF neg THEN 0 - DigitsVal(body) ELSE DigitsVal(body)]
        ELSE [ok |-> FALSE]

IsLeap(y) == (y % 4 = 0 /\ y % 100 # 0) \/ y % 400 = 0
DaysIn(m, y) ==
    IF m \in {4, 6, 9, 11} THEN 30
    ELSE IF m = 2 THEN (IF IsLeap(y) THEN 29 ELSE 28)
    ELSE 31

\* datetime.strptime(text, format) for the formats the parsers use: %d and %m
\* take one or two digits, %Y exactly four; [ok |-> FALSE] stands for ValueError.
\* The fields, once split at the separator:
DateOfParts(format, parts) ==
    LET ys    == IF format = "%Y-%m-%d" THEN parts[1] ELSE parts[3]
        ms    == IF format = "%m/%d/%Y" THEN parts[1] ELSE parts[2]
        ds    == CASE format = "%Y-%m-%d" -> parts[3]
                   [] format = "%m/%d/%Y" -> parts[2]
                   [] OTHER               -> parts[1]
        shape == /\ Len(parts) = 3
                 /\ Len(ds) \in {1, 2} /\ Len(ms) \in {1, 2} /\ Len(ys) = 4
                 /\ AllDigits(ds) /\ AllDigits(ms) /\ AllDigits(ys)
        d     == DigitsVal(ds)
        m     == DigitsVal(ms)
        y     == DigitsVal(ys)
    IN  IF shape /\ m \in 1..12 /\ d >= 1 /\ d <= DaysIn(m, y) /\ y >= 1
        THEN [ok |-> TRUE, val |-> [y |-> y, m |-> m, d |-> d]]
        ELSE [ok |-> FALSE]

ParseDate(format, text) ==
    DateOfParts(format, Split(text, IF format \in {"%m/%d/%Y", "%d/%m/%Y"} THEN "/" ELSE "-"))

\* a datetime: the date and the time of day
DateTime(y, m, d, hh, mm, ss) == [y |-> y, m |-> m, d |-> d, hh |-> hh, mm |-> mm, ss |-> ss]

\* the clock at the start of a run
Clock0 == DateTime(2025, 4, 1, 9, 30, 59)

---------------------------------------------------------------------------
(* mt940.formatter.Transaction *)

Transaction(date, amount, description, counter_account, reference, transaction_type) ==
    [date |-> date, amount |-> amount, description |-> description,
     counter_account |-> counter_account, reference |-> reference,
     transaction_type |-> transaction_type]

\* mutant: a Transaction built without a type is a CREDIT
DefaultTransactionTypeCredit == "CREDIT"

\* the dataclass default of transaction_type
DefaultTransactionType == "TRANSFER"

---------------------------------------------------------------------------
(* RabobankParser (key rabobank_old), RabobankNewParser (rabobank_new) and  *)
(* the legacy CSVParser (csv): reading the rows                            *)

exchange_rate_keywords == {<<"k","o","e","r","s","o","p","s","l","a","g">>}
settlement_keywords == {<<"v","e","r","r","e","k","e","n","i","n","g"," ","v","o","r","i","g"," ","o","v","e","r","z","i","c","h","t">>}
ignored_keywords == {<<"m","o","n","t","h","l","y"," ","p","a","y","m","e","n","t"," ","m","e","m","o">>}

\* any(keyword in text for keyword in keywords)
any_keyword_in(keywords, text) == \E kw \in keywords : Contains(text, kw)

EnglishColumns == {"Counterpty IBAN", "Transaction Reference", "Date", "Amount", "Description"}

\* RabobankNewParser.column_mapping (English -> Dutch), the columns the parsers read
\* unconditionally; the Dutch names are the ones the other two parsers use
column_mapping ==
    [e \in EnglishColumns |->
        CASE e = "Counterpty IBAN"       -> "Tegenrekening IBAN"
          [] e = "Transaction Reference" -> "Transactiereferentie"
          [] e = "Date"                  -> "Datum"
          [] e = "Amount"                -> "Bedrag"
          [] e = "Description"           -> "Omschrijving"]

normalize_column_name(columns, english_name) ==
    IF english_name \in columns THEN english_name
    ELSE IF column_mapping[english_name] \in columns THEN column_mapping[english_name]
    ELSE english_name

\* the column name a parser reads for a semantic column
column_of(b, columns, english_name) ==
    IF b = "rabobank_new" THEN normalize_column_name(columns, english_name)
    ELSE column_mapping[english_name]

\* mutant: every dialect is read day first
date_format_day_first(b) == "%d-%m-%Y"

\* the strptime format of the dialect
date_format(b) == IF b = "rabobank_new" THEN "%Y-%m-%d" ELSE "%d-%m-%Y"

DefaultRabobankIban == <<"N","L","9","2","R","A","B","O","0","0","0","1","2","3","4","5","6","7">>

\* mutant: the description is not lower-cased before the keyword test
is_ignored_case_sensitive(description) == any_keyword_in(ignored_keywords, description)

\* any(keyword.lower() in description.lower() for keyword in self.ignored_keywords)
is_ignored(description) ==
    any_keyword_in({Lower(kw) : kw \in ignored_keywords}, Lower(description))

RawTransaction(counter_account, reference, date, amount, description) ==
    [counter_account |-> counter_account, reference |-> reference, date |-> date,
     amount |-> amount, description |-> description]

\* One iteration of the loop of _parse_raw_transactions over a DataFrame row:
\* "skip" (continue), "raise" (KeyError of row[<absent column>]) or the RawTransaction.
\* The optional columns (Oorspr bedrag, Oorspr munt, Koers, ...) are read with
\* row.get, guarded, and reach no Transaction field.
parse_raw_row(b, columns, row) ==
    LET description_col == column_of(b, columns, "Description")
        amount_col      == column_of(b, columns, "Amount")
        date_col        == column_of(b, columns, "Date")
        counterpty_col  == column_of(b, columns, "Counterpty IBAN")
        ref_col         == column_of(b, columns, "Transaction Reference")
        date        == ParseDate(date_format(b), Strip(Str(row[date_col])))
        amount      == ParseDecimal(ReplaceChar(Str(row[amount_col]), ",", <<".">>))
        description == Strip(Str(row[description_col]))
    IN  IF \/ (description_col \in columns /\ isna(row[description_col]))
           \/ (amount_col \in columns /\ isna(row[amount_col]))
        THEN [kind |-> "skip"]
        ELSE IF date_col \notin columns THEN [kind |-> "raise"]
        ELSE IF ~date.ok THEN [kind |-> "skip"]
        ELSE IF amount_col \notin columns THEN [kind |-> "raise"]
        ELSE IF ~amount.ok THEN [kind |-> "skip"]
        ELSE IF description_col \notin columns THEN [kind |-> "raise"]
        ELSE IF is_ignored(description) THEN [kind |-> "skip"]
        ELSE IF b # "rabobank_old" /\ counterpty_col \notin columns THEN [kind |-> "raise"]
        ELSE IF ref_col \notin columns THEN [kind |-> "raise"]
        ELSE [kind |-> "raw",
              tx   |-> RawTransaction(
                          IF b = "rabobank_old" THEN DefaultRabobankIban
                          ELSE Strip(Str(row[counterpty_col])),
                          Strip(Str(row[ref_col])),
                          date.val, amount.val, description)]

\* _parse_raw_transactions: the whole loop; a raise aborts it
RECURSIVE parse_raw_rows(_, _, _, _)
parse_raw_rows(b, columns, rows, acc) ==
    IF rows = <<>> THEN [raised |-> FALSE, raw |-> acc]
    ELSE LET r == parse_raw_row(b, columns, Head(rows))
         IN  IF r.kind = "raise" THEN [raised |-> TRUE, raw |-> acc]
             ELSE parse_raw_rows(b, columns, Tail(rows),
                                 IF r.kind = "raw" THEN Append(acc, r.tx) ELSE acc)

parse_raw_transactions(b, d) == parse_raw_rows(b, d.columns, d.rows, <<>>)

---------------------------------------------------------------------------
(* the business rules of the three parsers *)

is_exchange_rate_surcharge(transaction) ==
    any_keyword_in(exchange_rate_keywords, Lower(transaction.description))

is_previous_statement_settlement(transaction) ==
    any_keyword_in(settlement_keywords, Lower(transaction.description))

\* mutant: the dates are not compared
transactions_are_related_any_date(transaction1, transaction2) ==
    LET ref1 == ParseInt(transaction1.reference)
        ref2 == ParseInt(transaction2.reference)
    IN  IF ~ref1.ok \/ ~ref2.ok THEN FALSE
        ELSE ref2.val = ref1.val + 1

\* same calendar date and int(reference2) == int(reference1) + 1; a ValueError
\* of int() makes them unrelated
transactions_are_related(transaction1, transaction2) ==
    LET ref1 == ParseInt(transaction1.reference)
        ref2 == ParseInt(transaction2.reference)
    IN  IF transaction1.date # transaction2.date THEN FALSE
        ELSE IF ~ref1.ok \/ ~ref2.ok THEN FALSE
        ELSE ref2.val = ref1.val + 1

card_keywords(b) ==
    IF b = "rabobank_old" THEN {<<"b","e","t","a","a","l","a","u","t","o","m","a","a","t">>, <<"a","p","p","l","e"," ","p","a","y">>, <<"c","a","r","d">>, <<"p","o","s">>}
    ELSE {<<"a","p","p","l","e"," ","p","a","y">>, <<"c","a","r","d">>, <<"p","o","s">>}

direct_debit_keywords == {<<"i","n","c","a","s","s","o">>, <<"a","u","t","o","m","a","t","i","s","c","h","e">>, <<"s","u","b","s","c","r","i","p","t","i","o","n">>, <<"r","e","c","u","r","r","i","n","g">>}

\* mutant: the sign of the amount is tested before the keywords
classify_transaction_amount_first(b, transaction) ==
    IF b = "csv" THEN DefaultTransactionType
    ELSE IF DecPos(transaction.amount) THEN "CREDIT"
    ELSE IF any_keyword_in(card_keywords(b), Lower(transaction.description)) THEN "CARD"
    ELSE IF any_keyword_in(direct_debit_keywords, Lower(transaction.description)) THEN "DIRECT_DEBIT"
    ELSE "TRANSFER"

\* _classify_transaction of RabobankParser and RabobankNewParser; CSVParser passes
\* no transaction_type, so its Transactions keep the dataclass default
classify_transaction(b, transaction) ==
    IF b = "csv" THEN DefaultTransactionType
    ELSE IF any_keyword_in(card_keywords(b), Lower(transaction.description)) THEN "CARD"
    ELSE IF any_keyword_in(direct_debit_keywords, Lower(transaction.description)) THEN "DIRECT_DEBIT"
    ELSE IF DecPos(transaction.amount) THEN "CREDIT"
    ELSE "TRANSFER"

SettlementDescription == <<"S","e","t","t","l","e","m","e","n","t"," ","p","r","e","v","i","o","u","s"," ","s","t","a","t","e","m","e","n","t">>
SurchargeSuffix == <<" ","(","i","n","c","l","."," ","e","x","c","h","a","n","g","e"," ","r","a","t","e"," ","s","u","r","c","h","a","r","g","e",")">>

\* mutant: the amount keeps its sign
settlement_transaction_signed(b, current_transaction) ==
    Transaction(current_transaction.date,
                current_transaction.amount,
                SettlementDescription,
                current_transaction.counter_account,
                current_transaction.reference,
                IF b = "csv" THEN DefaultTransactionType ELSE "CREDIT")

\* the Transaction built for a settlement row
settlement_transaction(b, current_transaction) ==
    Transaction(current_transaction.date,
                DecAbs(current_transaction.amount),
                SettlementDescription,
                current_transaction.counter_account,
                current_transaction.reference,
                IF b = "csv" THEN DefaultTransactionType ELSE "CREDIT")

\* whether the row after cursor k is absorbed into the row at k
absorbs_next(raw, k) ==
    /\ k + 1 <= Len(raw)
    /\ is_exchange_rate_surcharge(raw[k + 1])
    /\ transactions_are_related(raw[k], raw[k + 1])

\* mutant: the surcharge row after an absorbed one is absorbed too
absorbed_amount_chain(raw, k) ==
    IF k + 2 <= Len(raw) /\ is_exchange_rate_surcharge(raw[k + 2])
                         /\ transactions_are_related(raw[k + 1], raw[k + 2])
    THEN DecAdd(raw[k + 1].amount, raw[k + 2].amount)
    ELSE raw[k + 1].amount

\* the amount a row absorbs: that of the row after it
absorbed_amount(raw, k) == raw[k + 1].amount

\* the Transaction built for a row that is neither surcharge nor settlement
regular_transaction(b, raw, k) ==
    Transaction(raw[k].date,
                IF absorbs_next(raw, k) THEN DecAdd(raw[k].amount, absorbed_amount(raw, k))
                ELSE raw[k].amount,
                IF absorbs_next(raw, k) THEN raw[k].description \o SurchargeSuffix
                ELSE raw[k].description,
                raw[k].counter_account,
                raw[k].reference,
                classify_transaction(b, raw[k]))

\* mutant: a row followed by a surcharge row steps over it, related or not
business_rule_step_over_unrelated(b, raw, k, out) ==
    IF is_exchange_rate_surcharge(raw[k])
    THEN [i |-> k + 1, out |-> out]
    ELSE IF is_previous_statement_settlement(raw[k])
    THEN [i |-> k + 1, out |-> Append(out, settlement_transaction(b, raw[k]))]
    ELSE [i   |-> IF k + 1 <= Len(raw) /\ is_exchange_rate_surcharge(raw[k + 1])
                  THEN k + 2 ELSE k + 1,
          out |-> Append(out, regular_transaction(b, raw, k))]

\* mutant: a surcharge row at the cursor is not skipped but handled as any row
business_rule_step_keeps_surcharge(b, raw, k, out) ==
    IF is_previous_statement_settlement(raw[k])
    THEN [i |-> k + 1, out |-> Append(out, settlement_transaction(b, raw[k]))]
    ELSE [i   |-> IF absorbs_next(raw, k) THEN k + 2 ELSE k + 1,
          out |-> Append(out, regular_transaction(b, raw, k))]

\* One iteration of the while loop of _apply_business_rules with cursor k
\* (1-based) and the output list so far: the new cursor and output list.
business_rule_step(b, raw, k, out) ==
    IF is_exchange_rate_surcharge(raw[k])
    THEN [i |-> k + 1, out |-> out]
    ELSE IF is_previous_statement_settlement(raw[k])
    THEN [i |-> k + 1, out |-> Append(out, settlement_transaction(b, raw[k]))]
    ELSE [i   |-> IF absorbs_next(raw, k) THEN k + 2 ELSE k + 1,
          out |-> Append(out, regular_transaction(b, raw, k))]

\* _apply_business_rules: the whole loop
RECURSIVE business_rule_loop(_, _, _, _)
business_rule_loop(b, raw, k, out) ==
    IF k > Len(raw) THEN out
    ELSE LET s == business_rule_step(b, raw, k, out)
         IN  business_rule_loop(b, raw, s.i, s.out)

apply_business_rules(b, raw) == business_rule_loop(b, raw, 1, <<>>)

---------------------------------------------------------------------------
(* The DataFrames the rule-pass parsers are run on *)

RuleBanks == {"rabobank_old", "rabobank_new", "csv"}

\* the text of a date cell in the format of the parser's dialect; "bad" is a
\* date written in the other dialect's format
DateCell(b, tag) ==
    IF b = "rabobank_new"
    THEN CASE tag = "d1" -> <<"2","0","2","5","-","0","3","-","0","1">> [] tag = "d2" -> <<"2","0","2","5","-","0","3","-","0","2">> [] OTHER -> <<"0","1","-","0","3","-","2","0","2","5">>
    ELSE CASE tag = "d1" -> <<"0","1","-","0","3","-","2","0","2","5">> [] tag = "d2" -> <<"2","-","3","-","2","0","2","5">> [] OTHER -> <<"2","0","2","5","-","0","3","-","0","1">>

RowTemplate(date, amount, description, reference) ==
    [date |-> date, amount |-> amount, description |-> description, reference |-> reference]

\* the rows the files are made of: a purchase, surcharges, settlements of either
\* sign, the memo row, a row with both keywords, a row with a bad date, a credit
\* on another day, a row whose reference is no integer, a small credit
RuleRowTemplates ==
    { RowTemplate("d1",  <<"-","1","9",",","3","0">>,   <<"G","T","R","A","N","S","L","A","T","E",".","C","O","M">>, <<"8">>),
      RowTemplate("d1",  <<"-","0",",","3","9">>,    <<"K","o","e","r","s","o","p","s","l","a","g">>, <<"9">>),
      RowTemplate("d1",  <<"-","0",",","5">>,     <<"K","O","E","R","S","O","P","S","L","A","G">>, <<"1","0">>),
      RowTemplate("d1",  <<"-","1","5","0",",","0","0">>,  <<"V","e","r","r","e","k","e","n","i","n","g"," ","v","o","r","i","g"," ","o","v","e","r","z","i","c","h","t">>, <<"8">>),
      RowTemplate("d1",  <<"7","5",",","5">>,     <<"V","E","R","R","E","K","E","N","I","N","G"," ","V","O","R","I","G"," ","O","V","E","R","Z","I","C","H","T">>, <<"7">>),
      RowTemplate("d2",  <<"1","0","0",",","0","0">>,   <<"M","o","n","t","h","l","y"," ","P","a","y","m","e","n","t"," ","M","e","m","o">>, <<"9">>),
      RowTemplate("d1",  <<"1","5","0",",","0","0">>,   <<"K","o","e","r","s","o","p","s","l","a","g"," ","v","e","r","r","e","k","e","n","i","n","g"," ","v","o","r","i","g"," ","o","v","e","r","z","i","c","h","t">>, <<"9">>),
      RowTemplate("bad", <<"-","5",",","0","0">>,    <<"P","O","S"," ","T","E","R","M","I","N","A","L">>, <<"1","2">>),
      RowTemplate("d2",  <<"9","1","2",",","4","0">>,   <<"I","n","c","a","s","s","o"," ","c","a","r","d"," ","r","e","f","u","n","d">>, <<" ","8">>),
      RowTemplate("d1",  <<"-","7",",","2","5">>,    <<"S","p","o","t","i","f","y"," ","s","u","b","s","c","r","i","p","t","i","o","n">>, <<"A","1">>),
      RowTemplate("d1",  <<"0",",","2","5">>,     <<"R","e","f","u","n","d">>, <<"8">>) }

\* rows that only one-row files hold: an amount Decimal() rejects, an empty
\* description, an amount in thousandths, a description of blanks
ExtraRowTemplates ==
    { RowTemplate("d1",  <<"1",".","2","3","4",",","5","6">>, <<"A","p","p","l","e"," ","P","a","y"," ","S","t","o","r","e">>, <<"1","3">>),
      RowTemplate("d1",  <<"-","3",",","0","0">>,    <<" "," ">>, <<"1","6">>),
      RowTemplate("d1",  <<"-","1","2",",","3","4","5">>,  <<"H","o","t","e","l"," ","L","i","s","b","o","a">>, <<"1","5">>),
      RowTemplate("d1",  <<"-","1",",","0","0">>,    NaN, <<"1","4">>) }

SourceIban == <<"N","L","1","2","R","A","B","O","0","1","2","3","4","5","6","7","8","9">>

\* the semantic column a column name stands for
RoleOf(c) == CHOOSE e \in EnglishColumns : e = c \/ column_mapping[e] = c

\* the DataFrame row of a template under the given header
RowOf(b, columns, t) ==
    [c \in columns |->
        CASE RoleOf(c) = "Counterpty IBAN"       -> SourceIban
          [] RoleOf(c) = "Transaction Reference" -> t.reference
          [] RoleOf(c) = "Date"                  -> DateCell(b, t.date)
          [] RoleOf(c) = "Amount"                -> t.amount
          [] RoleOf(c) = "Description"           -> t.description]

DutchHeader == {column_mapping[e] : e \in EnglishColumns}

\* the header of an export: Dutch names, or English names in the new format
MainHeader(b) == IF b = "rabobank_new" THEN EnglishColumns ELSE DutchHeader

\* other headers: the new format with Dutch names, and headers that lack a column
OtherHeaders(b) ==
    (IF b = "rabobank_new" THEN {DutchHeader} ELSE {})
    \cup {MainHeader(b) \ {c} : c \in MainHeader(b)}
    \cup (IF b = "rabobank_new" THEN {DutchHeader \ {c} : c \in DutchHeader} ELSE {})

SeqsUpTo(S, n) == UNION {[1..m -> S] : m \in 0..n}

Frame(b, h, ts) == [columns |-> h, rows |-> [k \in 1..Len(ts) |-> RowOf(b, h, ts[k])]]

\* files under the main header with up to n rows, and one-row files under
\* every header
RuleFramesUpTo(b, n) ==
    {Frame(b, MainHeader(b), ts) : ts \in SeqsUpTo(RuleRowTemplates, n)}
    \cup
    {Frame(b, h, <<t>>) : h \in {MainHeader(b)} \cup OtherHeaders(b),
                          t \in RuleRowTemplates \cup ExtraRowTemplates}

RuleFrames(b) == RuleFramesUpTo(b, MaxRows)

NoCall == [op |-> "none"]
NoOutcome == [kind |-> "none"]

---------------------------------------------------------------------------
(* parse_file of the three parsers, one loop iteration per step *)

InitRules ==
    /\ bank \in RuleBanks
    /\ df \in RuleFrames(bank)
    /\ pc = "raw"
    /\ index = 1
    /\ raw_transactions = <<>>
    /\ i = 1
    /\ processed_transactions = <<>>
    /\ call = [op |-> "parse_file"]
    /\ outcome = NoOutcome
    /\ validation = NoOutcome
    /\ now = Clock0
    /\ transaction_reference_counter = 1
    /\ outputs = <<>>

\* _parse_raw_transactions: the row is skipped (continue)
RawRowSkipped ==
    /\ pc = "raw" /\ index <= Len(df.rows)
    /\ parse_raw_row(bank, df.columns, df.rows[index]).kind = "skip"
    /\ index' = index + 1
    /\ UNCHANGED <<bank, df, pc, raw_transactions, i, processed_transactions, call, outcome, validation, formatter_vars>>

\* _parse_raw_transactions: the row becomes a RawTransaction
RawRowAppended ==
    /\ pc = "raw" /\ index <= Len(df.rows)
    /\ parse_raw_row(bank, df.columns, df.rows[index]).kind = "raw"
    /\ raw_transactions' =
          Append(raw_transactions, parse_raw_row(bank, df.columns, df.rows[index]).tx)
    /\ index' = index + 1
    /\ UNCHANGED <<bank, df, pc, i, processed_transactions, call, outcome, validation, formatter_vars>>

\* _parse_raw_transactions: reading an absent column raises KeyError out of parse_file
RawRowRaises ==
    /\ pc = "raw" /\ index <= Len(df.rows)
    /\ parse_raw_row(bank, df.columns, df.rows[index]).kind = "raise"
    /\ pc' = "raised"
    /\ outcome' = [kind |-> "raised"]
    /\ UNCHANGED <<bank, df, index, raw_transactions, i, processed_transactions, call, validation, formatter_vars>>

\* the raw loop is over; _apply_business_rules starts with an empty list and i = 0
RawLoopEnds ==
    /\ pc = "raw" /\ index > Len(df.rows)
    /\ pc' = "rules"
    /\ i' = 1
    /\ processed_transactions' = <<>>
    /\ UNCHANGED <<bank, df, index, raw_transactions, call, outcome, validation, formatter_vars>>

\* one iteration of  while i < len(raw_transactions)
BusinessRuleStep ==
    /\ pc = "rules" /\ i <= Len(raw_transactions)
    /\ i' = business_rule_step(bank, raw_transactions, i, processed_transactions).i
    /\ processed_transactions' =
          business_rule_step(bank, raw_transactions, i, processed_transactions).out
    /\ UNCHANGED <<bank, df, pc, index, raw_transactions, call, outcome, validation, formatter_vars>>

\* the while loop exits; parse_file returns processed_transactions
BusinessRulesEnd ==
    /\ pc = "rules" /\ i > Len(raw_transactions)
    /\ pc' = "parsed"
    /\ outcome' = [kind |-> "returned"]
    /\ UNCHANGED <<bank, df, index, raw_transactions, i, processed_transactions, call, validation, formatter_vars>>

NextRules ==
    \/ RawRowSkipped
    \/ RawRowAppended
    \/ RawRowRaises
    \/ RawLoopEnds
    \/ BusinessRuleStep
    \/ BusinessRulesEnd

SpecRules == InitRules /\ [][NextRules]_vars

---------------------------------------------------------------------------
(* Vocabulary of the claims about the rule pass, stated on the rows          *)
(* themselves (not through the parsers' own predicates)                      *)

\* the value of a Decimal in thousandths, an integer
Mills(a) == a.c * Pow10(3 - a.e)

AbsInt(n) == IF n < 0 THEN 0 - n ELSE n

IsSurchargeRow(r) == Contains(Lower(r.description), <<"k","o","e","r","s","o","p","s","l","a","g">>)
IsSettlementRow(r) == Contains(Lower(r.description), <<"v","e","r","r","e","k","e","n","i","n","g"," ","v","o","r","i","g"," ","o","v","e","r","z","i","c","h","t">>)
IsMemoText(text) == Contains(Lower(text), <<"m","o","n","t","h","l","y"," ","p","a","y","m","e","n","t"," ","m","e","m","o">>)

\* same calendar date, both references integers, the second the first plus one
SameDateNextRef(r1, r2) ==
    /\ r1.date = r2.date
    /\ ParseInt(r1.reference).ok /\ ParseInt(r2.reference).ok
    /\ ParseInt(r2.reference).val = ParseInt(r1.reference).val + 1

\* the row after raw row a is a surcharge row related to it
FollowedByRelatedSurcharge(raw, a) ==
    /\ a + 1 <= Len(raw)
    /\ IsSurchargeRow(raw[a + 1])
    /\ SameDateNextRef(raw[a], raw[a + 1])

\* the rows the cursor has passed, and those of them that are no surcharge rows
Consumed == 1..(i - 1)
NonSurcharge(raw, S) == {a \in S : ~IsSurchargeRow(raw[a])}

\* the raw row the k-th output Transaction stands for: the k-th non-surcharge row
SourceRow(raw, k) ==
    CHOOSE a \in 1..Len(raw) :
        /\ ~IsSurchargeRow(raw[a])
        /\ Cardinality(NonSurcharge(raw, 1..a)) = k

InRulePass == pc \in {"rules", "parsed"}

\* every output so far stands for one non-surcharge row passed, in order
OneOutputPerNonSurchargeRow ==
    Len(processed_transactions) = Cardinality(NonSurcharge(raw_transactions, Consumed))

\* C2: a row that is neither surcharge nor settlement and is followed by a related
\* surcharge row (same date, integer reference + 1) yields exactly one Transaction
\* for the pair, with the sum of the two amounts and the description plus
\* ' (incl. exchange rate surcharge)'; otherwise it is emitted alone, with its own
\* amount and description.
C2_SurchargeMerge ==
    InRulePass =>
        /\ OneOutputPerNonSurchargeRow
        /\ \A k \in 1..Len(processed_transactions) :
              LET a == SourceRow(raw_transactions, k)
                  r == raw_transactions[a]
                  t == processed_transactions[k]
              IN  ~IsSettlementRow(r) =>
                    IF FollowedByRelatedSurcharge(raw_transactions, a)
                    THEN /\ Mills(t.amount) = Mills(r.amount) + Mills(raw_transactions[a + 1].amount)
                         /\ t.description = r.description \o <<" ","(","i","n","c","l","."," ","e","x","c","h","a","n","g","e"," ","r","a","t","e"," ","s","u","r","c","h","a","r","g","e",")">>
                    ELSE /\ Mills(t.amount) = Mills(r.amount)
                         /\ t.description = r.description

\* a row whose reference is no integer was emitted alone (-7.25) and the pair
\* after it was merged (-19,30 and -0,39 give -19.69)
C2_Witness ==
    /\ pc = "parsed"
    /\ Len(raw_transactions) = 3
    /\ ~FollowedByRelatedSurcharge(raw_transactions, 1)
    /\ FollowedByRelatedSurcharge(raw_transactions, 2)
    /\ Len(processed_transactions) = 2
    /\ processed_transactions[1].amount = Dec(-725, 2)
    /\ processed_transactions[1].description = <<"S","p","o","t","i","f","y"," ","s","u","b","s","c","r","i","p","t","i","o","n">>
    /\ processed_transactions[2].amount = Dec(-1969, 2)
    /\ processed_transactions[2].description =
          <<"G","T","R","A","N","S","L","A","T","E",".","C","O","M"," ","(","i","n","c","l","."," ","e","x","c","h","a","n","g","e"," ","r","a","t","e"," ","s","u","r","c","h","a","r","g","e",")">>

\* C3 as stated: every row with the settlement keyword is emitted as one CREDIT
\* Transaction with the absolute amount and the fixed description, and never merged.
C3_Original ==
    (InRulePass /\ bank \in {"rabobank_old", "rabobank_new"}) =>
        /\ \A a \in Consumed :
              IsSettlementRow(raw_transactions[a]) => ~IsSurchargeRow(raw_transactions[a])
        /\ OneOutputPerNonSurchargeRow
        /\ \A k \in 1..Len(processed_transactions) :
              LET r == raw_transactions[SourceRow(raw_transactions, k)]
                  t == processed_transactions[k]
              IN  IsSettlementRow(r) =>
                    /\ Mills(t.amount) = AbsInt(Mills(r.amount))
                    /\ t.transaction_type = "CREDIT"
                    /\ t.description = <<"S","e","t","t","l","e","m","e","n","t"," ","p","r","e","v","i","o","u","s"," ","s","t","a","t","e","m","e","n","t">>

\* C3 amended: every row with the settlement keyword and without the surcharge
\* keyword is emitted as one CREDIT Transaction with the absolute amount (whatever
\* the following row is) and the fixed description; a row with both keywords is
\* handled as a surcharge row and yields no Transaction.
C3_Settlement ==
    (InRulePass /\ bank \in {"rabobank_old", "rabobank_new"}) =>
        /\ OneOutputPerNonSurchargeRow
        /\ \A k \in 1..Len(processed_transactions) :
              LET r == raw_transactions[SourceRow(raw_transactions, k)]
                  t == processed_transactions[k]
              IN  IsSettlementRow(r) =>
                    /\ Mills(t.amount) = AbsInt(Mills(r.amount))
                    /\ t.transaction_type = "CREDIT"
                    /\ t.description = <<"S","e","t","t","l","e","m","e","n","t"," ","p","r","e","v","i","o","u","s"," ","s","t","a","t","e","m","e","n","t">>
        /\ Cardinality({k \in 1..Len(processed_transactions) :
                           processed_transactions[k].description = <<"S","e","t","t","l","e","m","e","n","t"," ","p","r","e","v","i","o","u","s"," ","s","t","a","t","e","m","e","n","t">>})
             = Cardinality({a \in Consumed : /\ IsSettlementRow(raw_transactions[a])
                                             /\ ~IsSurchargeRow(raw_transactions[a])})

\* a negative settlement directly followed by a surcharge with the same date and
\* the next reference came out as +150.00, and a positive one as 75.5
C3_Witness ==
    /\ pc = "parsed" /\ bank \in {"rabobank_old", "rabobank_new"}
    /\ \E a \in 1..(Len(raw_transactions) - 1) :
          /\ IsSettlementRow(raw_transactions[a]) /\ ~IsSurchargeRow(raw_transactions[a])
          /\ raw_transactions[a].amount = Dec(-15000, 2)
          /\ FollowedByRelatedSurcharge(raw_transactions, a)
    /\ \E k \in 1..Len(processed_transactions) :
          /\ processed_transactions[k].amount = Dec(15000, 2)
          /\ processed_transactions[k].transaction_type = "CREDIT"
    /\ \E k \in 1..Len(processed_transactions) :
          /\ processed_transactions[k].amount = Dec(755, 1)
          /\ processed_transactions[k].description = <<"S","e","t","t","l","e","m","e","n","t"," ","p","r","e","v","i","o","u","s"," ","s","t","a","t","e","m","e","n","t">>

\* sum of Mills(f[a]) over a set of rows
RECURSIVE SumMills(_, _)
SumMills(raw, S) ==
    IF S = {} THEN 0
    ELSE LET a == CHOOSE x \in S : TRUE
         IN  Mills(raw[a].amount) + SumMills(raw, S \ {a})

RECURSIVE SumAbsMills(_, _)
SumAbsMills(raw, S) ==
    IF S = {} THEN 0
    ELSE LET a == CHOOSE x \in S : TRUE
         IN  AbsInt(Mills(raw[a].amount)) + SumAbsMills(raw, S \ {a})

RECURSIVE SumOutMills(_)
SumOutMills(out) ==
    IF out = <<>> THEN 0 ELSE Mills(Head(out).amount) + SumOutMills(Tail(out))

\* the surcharge rows passed that the row right before them absorbed
Absorbed(raw, S) ==
    {a \in S : /\ a > 1
               /\ IsSurchargeRow(raw[a])
               /\ ~IsSurchargeRow(raw[a - 1]) /\ ~IsSettlementRow(raw[a - 1])
               /\ SameDateNextRef(raw[a - 1], raw[a])}

\* C4: no Transaction is created from a surcharge row, and a surcharge row that
\* the row right before it did not absorb is dropped without error: the output
\* amounts add up to the non-surcharge rows (settlements by absolute value) plus
\* the absorbed surcharges only.
C4_NoStandaloneSurcharge ==
    InRulePass =>
        /\ OneOutputPerNonSurchargeRow
        /\ \A k \in 1..Len(processed_transactions) :
              /\ ~Contains(Lower(processed_transactions[k].description), <<"k","o","e","r","s","o","p","s","l","a","g">>)
              /\ processed_transactions[k].reference =
                    raw_transactions[SourceRow(raw_transactions, k)].reference
        /\ SumOutMills(processed_transactions) =
              LET plain == {a \in NonSurcharge(raw_transactions, Consumed) :
                               ~IsSettlementRow(raw_transactions[a])}
                  settl == {a \in NonSurcharge(raw_transactions, Consumed) :
                               IsSettlementRow(raw_transactions[a])}
              IN  SumMills(raw_transactions, plain)
                  + SumAbsMills(raw_transactions, settl)
                  + SumMills(raw_transactions, Absorbed(raw_transactions, Consumed))

\* the pass ended on surcharge, settlement, surcharge (same date, next reference):
\* both surcharge rows were dropped and only the settlement came out
C4_Witness ==
    /\ pc = "parsed"
    /\ Len(raw_transactions) = 3
    /\ IsSurchargeRow(raw_transactions[1])
    /\ IsSettlementRow(raw_transactions[2]) /\ ~IsSurchargeRow(raw_transactions[2])
    /\ IsSurchargeRow(raw_transactions[3])
    /\ SameDateNextRef(raw_transactions[2], raw_transactions[3])
    /\ Len(processed_transactions) = 1

\* the frame without its memo rows
RECURSIVE WithoutMemoRows(_, _)
WithoutMemoRows(rows, description_col) ==
    IF rows = <<>> THEN <<>>
    ELSE (IF notna(Head(rows)[description_col]) /\ IsMemoText(Head(rows)[description_col])
          THEN <<>> ELSE <<Head(rows)>>)
         \o WithoutMemoRows(Tail(rows), description_col)

HasAllColumns == df.columns \in {EnglishColumns, DutchHeader}

DescriptionColumn == IF "Description" \in df.columns THEN "Description" ELSE "Omschrijving"

\* C5: a memo row ('monthly payment memo', any letter case) never reaches the rule
\* pass and the parse result is the one of the same file without its memo rows,
\* so the rows around a memo row are adjacent for the merge.
C5_IgnoredRow ==
    (InRulePass /\ HasAllColumns) =>
        /\ \A a \in 1..Len(raw_transactions) : ~IsMemoText(raw_transactions[a].description)
        /\ raw_transactions =
              parse_raw_transactions(bank,
                  [columns |-> df.columns,
                   rows    |-> WithoutMemoRows(df.rows, DescriptionColumn)]).raw
        /\ pc = "parsed" =>
              processed_transactions =
                 apply_business_rules(bank,
                    parse_raw_transactions(bank,
                       [columns |-> df.columns,
                        rows    |-> WithoutMemoRows(df.rows, DescriptionColumn)]).raw)

\* purchase, memo row, surcharge: the memo row is gone and the two rows around it
\* were merged into one Transaction of -19.69
C5_Witness ==
    /\ pc = "parsed"
    /\ Len(df.rows) = 3
    /\ IsMemoText(df.rows[2][DescriptionColumn])
    /\ Len(processed_transactions) = 1
    /\ processed_transactions[1].amount = Dec(-1969, 2)

---------------------------------------------------------------------------
(* Claims about malformed rows and about the legacy CSVParser *)

DateColumn == IF "Date" \in df.columns THEN "Date" ELSE "Datum"

AmountColumn == IF "Amount" \in df.columns THEN "Amount" ELSE "Bedrag"

\* the date pattern of the dialect: year first in the new export, day first in
\* the old one and in the legacy parser
IsDateOfDialect(b, text) ==
    IF b = "rabobank_new" THEN ParseDate("%Y-%m-%d", text).ok
    ELSE ParseDate("%d-%m-%Y", text).ok

\* a row whose date or amount cannot be parsed
IsMalformedRow(b, row) ==
    \/ ~IsDateOfDialect(b, Strip(Str(row[DateColumn])))
    \/ ~ParseDecimal(ReplaceChar(Str(row[AmountColumn]), ",", <<".">>)).ok

WithoutMalformedRows(b, rows) == SelectSeq(rows, LAMBDA row : ~IsMalformedRow(b, row))

---------------------------------------------------------------------------
(* The rule pass: termination, absorption and classification *)

\* before parse_file is called: no file is read yet
InitCall ==
    /\ bank = "csv"
    /\ df = [columns |-> {}, rows |-> <<>>]
    /\ pc = "call"
    /\ index = 1
    /\ raw_transactions = <<>>
    /\ i = 1
    /\ processed_transactions = <<>>
    /\ call = NoCall
    /\ outcome = NoOutcome
    /\ validation = NoOutcome
    /\ now = Clock0
    /\ transaction_reference_counter = 1
    /\ outputs = <<>>

\* parse_file(file_path) of one of the three parsers: pd.read_csv gives the DataFrame
ParseFile ==
    /\ pc = "call"
    /\ bank' \in RuleBanks
    /\ df' \in RuleFrames(bank')
    /\ pc' = "raw"
    /\ call' = [op |-> "parse_file"]
    /\ UNCHANGED <<index, raw_transactions, i, processed_transactions, outcome, validation, formatter_vars>>

NextCall ==
    \/ ParseFile
    \/ RawRowSkipped
    \/ RawRowAppended
    \/ RawRowRaises
    \/ RawLoopEnds
    \/ BusinessRuleStep
    \/ BusinessRulesEnd

\* the position of the interpreter in parse_file: the program point and the
\* two loop cursors
control == <<pc, index, i>>

\* the interpreter takes its next step: while parse_file has not returned or
\* raised, the program point or a cursor changes
Scheduled ==
    /\ pc \in {"call", "raw", "rules"}
    /\ \E p \in {"raw", "rules", "parsed", "raised"}, x \in 1..(MaxRows + 1), y \in 1..(MaxRows + 1) :
          /\ pc' = p
          /\ index' = x
          /\ i' = y

\* parse_file from its call on, run by an interpreter that does not halt
\* between two statements
SpecRulesFair == InitCall /\ [][NextCall]_vars /\ WF_control(Scheduled)

RulePassOver == pc \in {"parsed", "raised"}

\* an iteration of the while loop moves the cursor forward by one row or by
\* two, not beyond the end of the list; a row it steps over is a surcharge row
\* whose amount went into the Transaction the iteration appended
CursorStep ==
    (pc = "rules" /\ pc' = "rules") =>
        /\ i' \in {i + 1, i + 2}
        /\ i' <= Len(raw_transactions) + 1
        /\ i' = i + 2 =>
              /\ IsSurchargeRow(raw_transactions[i + 1])
              /\ Len(processed_transactions') = Len(processed_transactions) + 1
              /\ Mills(processed_transactions'[Len(processed_transactions')].amount) =
                    Mills(raw_transactions[i].amount) + Mills(raw_transactions[i + 1].amount)

\* an iteration that can run does move the cursor
IterationAdvances ==
    (pc = "rules" /\ i <= Len(raw_transactions)) =>
        business_rule_step(bank, raw_transactions, i, processed_transactions).i
            \in {i + 1, i + 2}

\* C28: the rule pass ends on every row list; each iteration moves the cursor
\* forward by 1 or by 2 and a row stepped over was absorbed; the rows passed so
\* far gave one Transaction per non-surcharge row and none per surcharge row,
\* so at the end the output has as many Transactions as there are non-surcharge
\* raw rows.
C28_RulePassTerminates ==
    /\ [][CursorStep]_vars
    /\ []IterationAdvances
    /\ [](InRulePass =>
            /\ OneOutputPerNonSurchargeRow
            /\ pc = "parsed" =>
                  /\ i = Len(raw_transactions) + 1
                  /\ Len(processed_transactions) =
                        Cardinality(NonSurcharge(raw_transactions, 1..Len(raw_transactions))))
    /\ <>RulePassOver

\* a standalone surcharge row was passed, then a row absorbed the surcharge row
\* after it: three raw rows, one Transaction
C28_Witness ==
    /\ pc = "parsed"
    /\ Len(raw_transactions) = 3
    /\ IsSurchargeRow(raw_transactions[1])
    /\ ~IsSurchargeRow(raw_transactions[2])
    /\ FollowedByRelatedSurcharge(raw_transactions, 2)
    /\ Len(processed_transactions) = 1
    /\ i = 4

\* C29: an output Transaction absorbs at most the surcharge row right after its
\* source row: its amount is the source row's amount, plus the amount of the
\* next row when that is a related surcharge row, and nothing of any further
\* row, even when further surcharge rows follow with consecutive references; a
\* settlement is emitted with the absolute value of its own amount alone.
C29_AtMostOneSurcharge ==
    InRulePass =>
        /\ OneOutputPerNonSurchargeRow
        /\ \A k \in 1..Len(processed_transactions) :
              LET a == SourceRow(raw_transactions, k)
                  r == raw_transactions[a]
                  t == processed_transactions[k]
              IN  IF IsSettlementRow(r)
                  THEN Mills(t.amount) = AbsInt(Mills(r.amount))
                  ELSE Mills(t.amount) = Mills(r.amount) +
                          (IF FollowedByRelatedSurcharge(raw_transactions, a)
                           THEN Mills(raw_transactions[a + 1].amount) ELSE 0)

\* -19,30 (reference 8) was followed by the surcharges -0,39 (9) and -0,5 (10)
\* of the same day: the output is -19.69 alone
C29_Witness ==
    /\ pc = "parsed"
    /\ Len(raw_transactions) = 3
    /\ raw_transactions[1].amount = Dec(-1930, 2)
    /\ IsSurchargeRow(raw_transactions[2]) /\ IsSurchargeRow(raw_transactions[3])
    /\ SameDateNextRef(raw_transactions[1], raw_transactions[2])
    /\ SameDateNextRef(raw_transactions[2], raw_transactions[3])
    /\ Len(processed_transactions) = 1
    /\ processed_transactions[1].amount = Dec(-1969, 2)

HasCardKeyword(b, text) ==
    \/ Contains(Lower(text), <<"a","p","p","l","e"," ","p","a","y">>)
    \/ Contains(Lower(text), <<"c","a","r","d">>)
    \/ Contains(Lower(text), <<"p","o","s">>)
    \/ (b = "rabobank_old" /\ Contains(Lower(text), <<"b","e","t","a","a","l","a","u","t","o","m","a","a","t">>))

HasDirectDebitKeyword(text) ==
    \/ Contains(Lower(text), <<"i","n","c","a","s","s","o">>)
    \/ Contains(Lower(text), <<"a","u","t","o","m","a","t","i","s","c","h","e">>)
    \/ Contains(Lower(text), <<"s","u","b","s","c","r","i","p","t","i","o","n">>)
    \/ Contains(Lower(text), <<"r","e","c","u","r","r","i","n","g">>)

\* the type by the stated precedence, from the row's own description and amount
TypeByPrecedence(b, r) ==
    IF HasCardKeyword(b, r.description) THEN "CARD"
    ELSE IF HasDirectDebitKeyword(r.description) THEN "DIRECT_DEBIT"
    ELSE IF Mills(r.amount) > 0 THEN "CREDIT"
    ELSE "TRANSFER"

\* C26: in RabobankParser and RabobankNewParser every non-settlement output
\* Transaction has the type its source row gets by the precedence card keyword,
\* direct-debit keyword, own amount > 0, else TRANSFER; the amount tested is the
\* row's own, not the merged one.
C26_Classification ==
    (InRulePass /\ bank \in {"rabobank_old", "rabobank_new"}) =>
        /\ OneOutputPerNonSurchargeRow
        /\ \A k \in 1..Len(processed_transactions) :
              LET a == SourceRow(raw_transactions, k)
                  r == raw_transactions[a]
                  t == processed_transactions[k]
              IN  ~IsSettlementRow(r) =>
                      t.transaction_type = TypeByPrecedence(bank, r)

\* the credit 912,40 with a card and a direct-debit keyword came out as CARD, and
\* the credit 0,25 merged with the surcharge -0,39 came out as CREDIT with -0.14
C26_Witness ==
    /\ pc = "parsed"
    /\ bank \in {"rabobank_old", "rabobank_new"}
    /\ Len(raw_transactions) = 3
    /\ Len(processed_transactions) = 2
    /\ raw_transactions[1].amount = Dec(91240, 2)
    /\ HasCardKeyword(bank, raw_transactions[1].description)
    /\ HasDirectDebitKeyword(raw_transactions[1].description)
    /\ processed_transactions[1].transaction_type = "CARD"
    /\ raw_transactions[2].amount = Dec(25, 2)
    /\ FollowedByRelatedSurcharge(raw_transactions, 2)
    /\ Mills(processed_transactions[2].amount) < 0
    /\ processed_transactions[2].transaction_type = "CREDIT"

\* the value of the Decimal can be written with two fractional digits
AtMostTwoFractionalDigits(a) == Mills(a) % 10 = 0

\* C22 as stated, for the three rule-pass parsers: every Transaction they produce
\* has an amount with at most 2 fractional digits, whatever the source amount.
C22_Original ==
    InRulePass =>
        \A k \in 1..Len(processed_transactions) :
            AtMostTwoFractionalDigits(processed_transactions[k].amount)

---------------------------------------------------------------------------
(* IcsParser (key ics) *)

ics_settlement_keywords == {<<"g","e","i","n","c","a","s","s","e","e","r","d"," ","v","o","r","i","g"," ","s","a","l","d","o">>, <<"v","e","r","r","e","k","e","n","i","n","g"," ","v","o","r","i","g"," ","s","a","l","d","o">>}

\* row.get(col, default) on a DataFrame row
row_get(columns, row, col, default) == IF col \in columns THEN row[col] ELSE default

HasChar(s, ch) == \E k \in 1..Len(s) : s[k] = ch

\* European format: with both ',' and '.' the dots are thousands separators,
\* with only ',' it is the decimal separator
ics_amount_str(cell) ==
    LET amount_str == Strip(Str(cell))
    IN  IF HasChar(amount_str, ",") /\ HasChar(amount_str, ".")
        THEN ReplaceChar(ReplaceChar(amount_str, ".", <<>>), ",", <<".">>)
        ELSE IF HasChar(amount_str, ",") THEN ReplaceChar(amount_str, ",", <<".">>)
        ELSE amount_str

IcsRawTransaction(transaction_date, booking_date, description, card_number, debit_credit, amount) ==
    [transaction_date |-> transaction_date, booking_date |-> booking_date,
     description |-> description, card_number |-> card_number,
     debit_credit |-> debit_credit, amount |-> amount]

\* One iteration of the loop of IcsParser._parse_raw_transactions: "skip" (continue),
\* "raise" (KeyError of row[<absent column>]) or the RawTransaction.  The fields
\* that reach no Transaction (cardholder, merchant category, country, currency,
\* original amount, type, wallet) are read with row.get and left out.
ics_parse_raw_row(columns, row) ==
    LET transaction_date == ParseDate("%d-%m-%Y", Strip(Str(row["Transactiedatum"])))
        booking          == ParseDate("%d-%m-%Y", Strip(Str(row["Boekingsdatum"])))
        amount           == ParseDecimal(ics_amount_str(row["Bedrag"]))
    IN  IF \/ isna(row_get(columns, row, "Omschrijving", <<>>))
           \/ isna(row_get(columns, row, "Bedrag", <<>>))
        THEN [kind |-> "skip"]
        ELSE IF "Transactiedatum" \notin columns THEN [kind |-> "raise"]
        ELSE IF ~transaction_date.ok THEN [kind |-> "skip"]
        ELSE IF "Boekingsdatum" \notin columns THEN [kind |-> "raise"]
        ELSE IF "Bedrag" \notin columns THEN [kind |-> "raise"]
        ELSE IF ~amount.ok THEN [kind |-> "skip"]
        ELSE IF "Omschrijving" \notin columns THEN [kind |-> "raise"]
        ELSE [kind |-> "raw",
              tx   |-> IcsRawTransaction(
                          transaction_date.val,
                          IF booking.ok THEN booking.val ELSE transaction_date.val,
                          Strip(Str(row["Omschrijving"])),
                          Strip(Str(row_get(columns, row, "Card nummer", <<>>))),
                          Upper(Strip(Str(row_get(columns, row, "Debit/Credit", <<>>)))),
                          amount.val)]

\* mutant: a debit is made negative instead of negated
ics_apply_sign_logic_debit_negative(transaction) ==
    IF transaction.debit_credit = <<"C">>
    THEN [amount |-> DecNeg(transaction.amount), transaction_type |-> "CREDIT"]
    ELSE IF transaction.debit_credit = <<"D">>
    THEN [amount |-> DecNeg(DecAbs(transaction.amount)), transaction_type |-> "TRANSFER"]
    ELSE [amount |-> transaction.amount, transaction_type |-> "TRANSFER"]

\* _apply_ics_sign_logic: (processed_amount, transaction_type)
ics_apply_sign_logic(transaction) ==
    IF transaction.debit_credit = <<"C">>
    THEN [amount |-> DecNeg(transaction.amount), transaction_type |-> "CREDIT"]
    ELSE IF transaction.debit_credit = <<"D">>
    THEN [amount |-> DecNeg(transaction.amount), transaction_type |-> "TRANSFER"]
    ELSE [amount |-> transaction.amount, transaction_type |-> "TRANSFER"]

ics_is_previous_statement_settlement(transaction) ==
    any_keyword_in(ics_settlement_keywords, Lower(transaction.description))

\* the text of n padded with zeros on the left to width w
ZeroPad(n, w) == [k \in 1..(w - Len(NatStr(n))) |-> "0"] \o NatStr(n)

\* f"{50000000000 + i + 1}" for the enumerate index i = k - 1, as text
ics_reference(k) == <<"5">> \o ZeroPad(k, 10)

\* One iteration of the for loop of IcsParser._apply_business_rules: the
\* Transaction of raw_transactions[k]
ics_business_rule(raw, k) ==
    LET raw_transaction == raw[k]
        signed          == ics_apply_sign_logic(raw_transaction)
    IN  IF ics_is_previous_statement_settlement(raw_transaction)
        THEN Transaction(raw_transaction.transaction_date,
                         signed.amount,
                         SettlementDescription,
                         <<"I","C","S">> \o raw_transaction.card_number,
                         ics_reference(k),
                         "CREDIT")
        ELSE Transaction(raw_transaction.transaction_date,
                         signed.amount,
                         raw_transaction.description,
                         <<"N","L","0","0","I","C","S","0">> \o ReplaceChar(raw_transaction.card_number, "*", <<"0">>),
                         ics_reference(k),
                         signed.transaction_type)

ics_required_columns == {"Transactiedatum", "Omschrijving", "Debit/Credit", "Bedrag"}

\* the checks validate_file_format makes on one of the first five rows
ics_row_validates(columns, row) ==
    /\ ParseDate("%d-%m-%Y", Str(row["Transactiedatum"])).ok
    /\ ParseDecimal(ReplaceChar(Str(row["Bedrag"]), ",", <<".">>)).ok
    /\ Upper(Strip(Str(row_get(columns, row, "Debit/Credit", <<>>)))) \in {<<"D">>, <<"C">>}

\* IcsParser.validate_file_format: the 'valid' entry of the result
ics_validate_file_format(d) ==
    IF ics_required_columns \ d.columns # {} THEN [kind |-> "validation", valid |-> FALSE]
    ELSE IF Len(d.rows) = 0 THEN [kind |-> "validation", valid |-> FALSE]
    ELSE [kind  |-> "validation",
          valid |-> \A k \in 1..Min(5, Len(d.rows)) : ics_row_validates(d.columns, d.rows[k])]

---------------------------------------------------------------------------
(* The DataFrames IcsParser is run on *)

IcsColumns ==
    {"Transactiedatum", "Boekingsdatum", "Omschrijving", "Card nummer", "Debit/Credit", "Bedrag"}

IcsRowTemplate(date, description, flag, amount) ==
    [date |-> date, description |-> description, flag |-> flag, amount |-> amount]

\* purchases and refunds of either sign, settlements under either flag and sign,
\* rows with no usable flag, a bad date, a bad amount
IcsRowTemplates ==
    { IcsRowTemplate(<<"0","1","-","0","3","-","2","0","2","5">>, <<"A","p","p","l","e"," ","S","t","o","r","e">>, <<"D">>, <<"1","2","1",",","0","0">>),
      IcsRowTemplate(<<"0","2","-","0","3","-","2","0","2","5">>, <<"G","E","I","N","C","A","S","S","E","E","R","D"," ","V","O","R","I","G"," ","S","A","L","D","O">>, <<"C">>, <<"-","1","3","0","4",",","9","1">>),
      IcsRowTemplate(<<"0","2","-","0","3","-","2","0","2","5">>, <<"V","e","r","r","e","k","e","n","i","n","g"," ","v","o","r","i","g"," ","s","a","l","d","o">>, <<"D">>, <<"-","5","0",",","0","0">>),
      IcsRowTemplate(<<"3","-","3","-","2","0","2","5">>,   <<"G","e","i","n","c","a","s","s","e","e","r","d"," ","v","o","r","i","g"," ","s","a","l","d","o">>, <<" ","c"," ">>, <<"1",".","3","0","4",",","9","1">>),
      IcsRowTemplate(<<"0","1","-","0","3","-","2","0","2","5">>, <<"R","e","f","u","n","d"," ","w","e","b","s","h","o","p">>, <<"C">>, <<"2","5",",","5">>),
      IcsRowTemplate(<<"0","1","-","0","3","-","2","0","2","5">>, <<"C","o","r","r","e","c","t","i","o","n">>, <<"d">>, <<"-","1","0",",","0","0">>),
      IcsRowTemplate(<<"0","1","-","0","3","-","2","0","2","5">>, <<"F","e","e">>, NaN, <<"3",",","0","0">>),
      IcsRowTemplate(<<"0","1","-","0","3","-","2","0","2","5">>, <<"v","e","r","r","e","k","e","n","i","n","g"," ","v","o","r","i","g"," ","s","a","l","d","o">>, <<"X">>, <<"-","7",",","5">>),
      IcsRowTemplate(<<"2","0","2","5","-","0","3","-","0","1">>, <<"B","o","o","k","s","h","o","p">>, <<"D">>, <<"1","2",",","0","0">>),
      IcsRowTemplate(<<"0","1","-","0","3","-","2","0","2","5">>, <<"H","o","t","e","l">>, <<"D">>, <<"1",".","2",".","3">>) }

\* rows that only one-row files hold: an empty description, an empty amount
IcsExtraRowTemplates ==
    { IcsRowTemplate(<<"0","1","-","0","3","-","2","0","2","5">>, NaN, <<"D">>, <<"1",",","0","0">>),
      IcsRowTemplate(<<"0","1","-","0","3","-","2","0","2","5">>, <<"T","a","x","i">>, <<"D">>, NaN) }

IcsCardNumber == <<"*","*","*","*","1","2","3","4">>

IcsRowOf(columns, t) ==
    [c \in columns |->
        CASE c = "Transactiedatum" -> t.date
          [] c = "Boekingsdatum"   -> t.date
          [] c = "Omschrijving"    -> t.description
          [] c = "Card nummer"     -> IcsCardNumber
          [] c = "Debit/Credit"    -> t.flag
          [] c = "Bedrag"          -> t.amount]

IcsFrame(h, ts) == [columns |-> h, rows |-> [k \in 1..Len(ts) |-> IcsRowOf(h, ts[k])]]

\* files with all columns and up to n rows, and one-row files that lack a column
IcsFramesUpTo(n) ==
    {IcsFrame(IcsColumns, ts) : ts \in SeqsUpTo(IcsRowTemplates, n)}
    \cup
    {IcsFrame(h, <<t>>) : h \in {IcsColumns} \cup {IcsColumns \ {c} : c \in IcsColumns},
                          t \in IcsRowTemplates \cup IcsExtraRowTemplates}

IcsFrames == IcsFramesUpTo(MaxRows)

---------------------------------------------------------------------------
(* validate_file_format and parse_file of IcsParser on one file *)

InitIcs ==
    /\ bank = "ics"
    /\ df \in IcsFrames
    /\ pc \in {"validate", "raw"}
    /\ index = 1
    /\ raw_transactions = <<>>
    /\ i = 1
    /\ processed_transactions = <<>>
    /\ call = [op |-> "parse_file"]
    /\ outcome = NoOutcome
    /\ validation = NoOutcome
    /\ now = Clock0
    /\ transaction_reference_counter = 1
    /\ outputs = <<>>

\* validate_file_format(file), before the file is parsed
IcsValidateFileFormat ==
    /\ pc = "validate"
    /\ validation' = ics_validate_file_format(df)
    /\ pc' = "raw"
    /\ UNCHANGED <<bank, df, index, raw_transactions, i, processed_transactions, call, outcome,
                   formatter_vars>>

IcsRawRowSkipped ==
    /\ pc = "raw" /\ index <= Len(df.rows)
    /\ ics_parse_raw_row(df.columns, df.rows[index]).kind = "skip"
    /\ index' = index + 1
    /\ UNCHANGED <<bank, df, pc, raw_transactions, i, processed_transactions, call, outcome,
                   validation, formatter_vars>>

IcsRawRowAppended ==
    /\ pc = "raw" /\ index <= Len(df.rows)
    /\ ics_parse_raw_row(df.columns, df.rows[index]).kind = "raw"
    /\ raw_transactions' =
          Append(raw_transactions, ics_parse_raw_row(df.columns, df.rows[index]).tx)
    /\ index' = index + 1
    /\ UNCHANGED <<bank, df, pc, i, processed_transactions, call, outcome, validation, formatter_vars>>

\* reading an absent column raises KeyError out of parse_file
IcsRawRowRaises ==
    /\ pc = "raw" /\ index <= Len(df.rows)
    /\ ics_parse_raw_row(df.columns, df.rows[index]).kind = "raise"
    /\ pc' = "raised"
    /\ outcome' = [kind |-> "raised"]
    /\ UNCHANGED <<bank, df, index, raw_transactions, i, processed_transactions, call,
                   validation, formatter_vars>>

IcsRawLoopEnds ==
    /\ pc = "raw" /\ index > Len(df.rows)
    /\ pc' = "rules"
    /\ i' = 1
    /\ processed_transactions' = <<>>
    /\ UNCHANGED <<bank, df, index, raw_transactions, call, outcome, validation, formatter_vars>>

\* one iteration of  for i, raw_transaction in enumerate(raw_transactions)
IcsBusinessRuleStep ==
    /\ pc = "rules" /\ i <= Len(raw_transactions)
    /\ processed_transactions' =
          Append(processed_transactions, ics_business_rule(raw_transactions, i))
    /\ i' = i + 1
    /\ UNCHANGED <<bank, df, pc, index, raw_transactions, call, outcome, validation, formatter_vars>>

IcsBusinessRulesEnd ==
    /\ pc = "rules" /\ i > Len(raw_transactions)
    /\ pc' = "parsed"
    /\ outcome' = [kind |-> "returned"]
    /\ UNCHANGED <<bank, df, index, raw_transactions, i, processed_transactions, call,
                   validation, formatter_vars>>

NextIcs ==
    \/ IcsValidateFileFormat
    \/ IcsRawRowSkipped
    \/ IcsRawRowAppended
    \/ IcsRawRowRaises
    \/ IcsRawLoopEnds
    \/ IcsBusinessRuleStep
    \/ IcsBusinessRulesEnd

SpecIcs == InitIcs /\ [][NextIcs]_vars

---------------------------------------------------------------------------
(* Claims about IcsParser *)

IsIcsSettlementRow(r) ==
    \/ Contains(Lower(r.description), <<"g","e","i","n","c","a","s","s","e","e","r","d"," ","v","o","r","i","g"," ","s","a","l","d","o">>)
    \/ Contains(Lower(r.description), <<"v","e","r","r","e","k","e","n","i","n","g"," ","v","o","r","i","g"," ","s","a","l","d","o">>)

InIcsRulePass == bank = "ics" /\ pc \in {"rules", "parsed"}

\* every row the loop has passed has its own Transaction, in order
OneOutputPerIcsRow ==
    /\ Len(processed_transactions) = i - 1
    /\ pc = "parsed" => Len(processed_transactions) = Len(raw_transactions)

\* C6 as stated: for every row flagged D or C the amount is the negation of the
\* source amount; every D row gets TRANSFER and every C row gets CREDIT.
C6_Original ==
    InIcsRulePass =>
        /\ OneOutputPerIcsRow
        /\ \A k \in 1..Len(processed_transactions) :
              LET r == raw_transactions[k]
                  t == processed_transactions[k]
              IN  /\ r.debit_credit \in {<<"D">>, <<"C">>} =>
                        Mills(t.amount) = 0 - Mills(r.amount)
                  /\ r.debit_credit = <<"D">> => t.transaction_type = "TRANSFER"
                  /\ r.debit_credit = <<"C">> => t.transaction_type = "CREDIT"

\* C6 amended: for every row flagged D or C the amount is the negation of the
\* source amount, whatever its sign; a C row gets CREDIT; a D row gets TRANSFER
\* unless its description has a settlement keyword, and then it gets CREDIT.
C6_SignFlip ==
    InIcsRulePass =>
        /\ OneOutputPerIcsRow
        /\ \A k \in 1..Len(processed_transactions) :
              LET r == raw_transactions[k]
                  t == processed_transactions[k]
              IN  /\ r.debit_credit \in {<<"D">>, <<"C">>} =>
                        Mills(t.amount) = 0 - Mills(r.amount)
                  /\ r.debit_credit = <<"C">> => t.transaction_type = "CREDIT"
                  /\ r.debit_credit = <<"D">> =>
                        t.transaction_type =
                            IF IsIcsSettlementRow(r) THEN "CREDIT" ELSE "TRANSFER"

\* debit 121,00 came out as -121.00 TRANSFER, the credit -1304,91 as +1304.91
\* CREDIT and the debit-flagged settlement -50,00 as +50.00 CREDIT
C6_Witness ==
    /\ bank = "ics" /\ pc = "parsed"
    /\ Len(processed_transactions) = 3
    /\ \E k \in 1..3 :
          /\ raw_transactions[k].debit_credit = <<"D">>
          /\ raw_transactions[k].amount = Dec(12100, 2)
          /\ processed_transactions[k].amount = Dec(-12100, 2)
          /\ processed_transactions[k].transaction_type = "TRANSFER"
    /\ \E k \in 1..3 :
          /\ raw_transactions[k].debit_credit = <<"C">>
          /\ raw_transactions[k].amount = Dec(-130491, 2)
          /\ processed_transactions[k].amount = Dec(130491, 2)
          /\ processed_transactions[k].transaction_type = "CREDIT"
    /\ \E k \in 1..3 :
          /\ raw_transactions[k].debit_credit = <<"D">>
          /\ IsIcsSettlementRow(raw_transactions[k])
          /\ processed_transactions[k].amount = Dec(5000, 2)
          /\ processed_transactions[k].transaction_type = "CREDIT"

\* C7 as stated: every row with a settlement keyword yields exactly one Transaction
\* with type CREDIT, the description 'Settlement previous statement' and the
\* sign-flipped source amount, which is positive.
C7_Original ==
    InIcsRulePass =>
        /\ OneOutputPerIcsRow
        /\ \A k \in 1..Len(processed_transactions) :
              LET r == raw_transactions[k]
                  t == processed_transactions[k]
              IN  IsIcsSettlementRow(r) =>
                    /\ t.transaction_type = "CREDIT"
                    /\ t.description = <<"S","e","t","t","l","e","m","e","n","t"," ","p","r","e","v","i","o","u","s"," ","s","t","a","t","e","m","e","n","t">>
                    /\ Mills(t.amount) = 0 - Mills(r.amount)
                    /\ Mills(t.amount) > 0

\* C10 as stated, for IcsParser: when validate_file_format returned valid = true,
\* parse_file on the same file does not raise.
C10_Original ==
    (bank = "ics" /\ validation # NoOutcome /\ validation.valid) => pc # "raised"

---------------------------------------------------------------------------
(* AmexParser (key amex).  The DataFrame is the one read with the header row   *)
(* found; its rows are positional (row.iloc), its columns a list of names.    *)

payment_keywords == {<<"h","a","r","t","e","l","i","j","k"," ","b","e","d","a","n","k","t"," ","v","o","o","r"," ","u","w"," ","b","e","t","a","l","i","n","g">>}

\* the euro sign, one character
Euro == "euro"

\* AmexParser.COLUMN_MAP.get(name): the role of a lower-cased header name
COLUMN_MAP(name) ==
    CASE name \in {<<"d","a","t","u","m">>, <<"d","a","t","e">>}                 -> "date"
      [] name \in {<<"o","m","s","c","h","r","i","j","v","i","n","g">>, <<"d","e","s","c","r","i","p","t","i","o","n">>}   -> "description"
      [] name \in {<<"b","e","d","r","a","g">>, <<"a","m","o","u","n","t">>}              -> "amount"
      [] name = <<"v","e","r","m","e","l","d"," ","o","p"," ","u","w"," ","r","e","k","e","n","i","n","g","o","v","e","r","z","i","c","h","t"," ","a","l","s">> -> "statement_description"
      [] name \in {<<"a","d","r","e","s">>, <<"a","d","d","r","e","s","s">>}              -> "address"
      [] name = <<"a","a","n","v","u","l","l","e","n","d","e"," ","i","n","f","o","r","m","a","t","i","e">>              -> "extra_info"
      [] name \in {<<"r","e","f","e","r","e","n","t","i","e">>, <<"r","e","f","e","r","e","n","c","e">>}       -> "reference"
      [] name = <<"p","l","a","a","t","s">>                              -> "city"
      [] name = <<"p","o","s","t","c","o","d","e">>                            -> "postal_code"
      [] name = <<"l","a","n","d">>                                -> "country"
      [] OTHER                                          -> "none"

\* self._col_indices.get(role): the first column with that role, 0 for None
col_indices(columns, role) ==
    LET S == {k \in 1..Len(columns) : COLUMN_MAP(Lower(Strip(columns[k]))) = role}
    IN  IF S = {} THEN 0 ELSE CHOOSE k \in S : \A m \in S : k <= m

\* pd.to_datetime(value), the last resort of _parse_date.  The only cells that get
\* here are words without a digit that name no month or weekday: it raises.
to_datetime(cell) == [ok |-> FALSE]

\* _parse_date on the stripped text of a cell that is no datetime and not NaN:
\* the first format that parses, else pd.to_datetime
parse_date_str(cell, date_str) ==
    LET formats == <<"%Y-%m-%d", "%d-%m-%Y", "%m/%d/%Y", "%d/%m/%Y", "%d-%m-%Y">>
        good    == {k \in 1..Len(formats) : ParseDate(formats[k], date_str).ok}
    IN  IF good # {}
        THEN ParseDate(formats[CHOOSE k \in good : \A m \in good : k <= m], date_str)
        ELSE to_datetime(cell)

\* _parse_date: [ok |-> FALSE] stands for ValueError
amex_parse_date(cell) ==
    IF isinstance_datetime(cell) THEN ParseDate("%Y-%m-%d", Tail(cell))
    ELSE IF isna(cell) THEN [ok |-> FALSE]
    ELSE parse_date_str(cell, Strip(Str(cell)))

\* ''.join(c for c in s if c.isdigit() or c in '.-')
RECURSIVE KeepAmountChars(_)
KeepAmountChars(s) ==
    IF s = <<>> THEN <<>>
    ELSE (IF IsDigit(Head(s)) \/ Head(s) \in {".", "-"} THEN <<Head(s)>> ELSE <<>>)
         \o KeepAmountChars(Tail(s))

\* the end of _clean_amount, on the characters kept
decimal_of_cleaned(cleaned) ==
    IF cleaned = <<>> \/ cleaned = <<"-">> THEN [ok |-> FALSE] ELSE ParseDecimal(cleaned)

\* _clean_amount: [ok |-> FALSE] stands for ValueError / InvalidOperation
clean_amount(cell) ==
    IF isna(cell) THEN [ok |-> FALSE]
    ELSE decimal_of_cleaned(
            KeepAmountChars(
               Strip(ReplaceChar(ReplaceChar(ReplaceChar(Strip(Str(cell)),
                        Euro, <<>>), "$", <<>>), ",", <<".">>))))

looks_like_date_or_amount(text) ==
    /\ \E k \in 1..Len(text) : IsDigit(text[k])
    /\ \E k \in 1..Len(text) : text[k] \in {".", ",", Euro, "$", "-", "/"}

\* the date of the row and the column it was found in (columns one and two);
\* [ok |-> FALSE] when there is none
amex_row_date(row) ==
    IF notna(row[1]) /\ amex_parse_date(row[1]).ok
    THEN [ok |-> TRUE, val |-> amex_parse_date(row[1]).val, idx |-> 1]
    ELSE IF notna(row[1]) /\ Len(row) > 1 /\ notna(row[2]) /\ amex_parse_date(row[2]).ok
    THEN [ok |-> TRUE, val |-> amex_parse_date(row[2]).val, idx |-> 2]
    ELSE [ok |-> FALSE]

\* the amount of the row and the column it was found in: column three, and when
\* that cell cannot be cleaned the first cell that can; [ok |-> FALSE] for None
amex_row_amount(row) ==
    LET cleaned(k) == clean_amount(row[k])
        others     == {k \in 1..Len(row) : notna(row[k]) /\ cleaned(k).ok}
        first      == CHOOSE k \in others : \A m \in others : k <= m
        found      == IF cleaned(3).ok THEN 3 ELSE IF others # {} THEN first ELSE 0
    IN  IF Len(row) > 2 /\ notna(row[3]) /\ found # 0
        THEN [ok |-> TRUE, val |-> cleaned(found).val, idx |-> found]
        ELSE [ok |-> FALSE]

\* the text of the first of the two description columns that has one, else <<>>
amex_mapped_description(columns, row) ==
    LET cell(role) == row[col_indices(columns, role)]
        has(role)  == /\ col_indices(columns, role) # 0
                      /\ col_indices(columns, role) <= Len(row)
                      /\ notna(cell(role))
                      /\ Strip(Str(cell(role))) # <<>>
    IN  IF has("statement_description") THEN Strip(Str(cell("statement_description")))
        ELSE IF has("description") THEN Strip(Str(cell("description")))
        ELSE <<>>

\* the fallback: the longest text cell (the first of them) that is not the date,
\* the amount or the address and does not look like a date or an amount
amex_longest_text(columns, row, date_col_idx, amount_col_idx) ==
    LET S == {k \in 1..Len(row) :
                /\ k \notin {date_col_idx, amount_col_idx, col_indices(columns, "address")}
                /\ notna(row[k])
                /\ Strip(Str(row[k])) # <<>>
                /\ ~looks_like_date_or_amount(Strip(Str(row[k])))}
        best == CHOOSE k \in S :
                    \A m \in S : \/ Len(Strip(Str(row[k]))) > Len(Strip(Str(row[m])))
                                 \/ (Len(Strip(Str(row[k]))) = Len(Strip(Str(row[m]))) /\ k <= m)
    IN  IF S = {} THEN <<>> ELSE Strip(Str(row[best]))

\* f"{49000000000 + index + 1}" for the DataFrame index = k - 1, as text
amex_reference(k) == <<"4", "9">> \o ZeroPad(k, 9)

AmexCounterAccount == <<"N","L","0","0","A","M","E","X","0","0","0","0","0","0","0","0","0","0">>

\* mutant: a payment is negated like any other row
apply_amex_logic_negates_payment(amount, description) ==
    IF any_keyword_in(payment_keywords, Lower(description))
    THEN [amount |-> DecNeg(amount), transaction_type |-> "CREDIT"]
    ELSE [amount |-> DecNeg(amount), transaction_type |-> "TRANSFER"]

\* _apply_amex_logic: (processed_amount, transaction_type)
apply_amex_logic(amount, description) ==
    IF any_keyword_in(payment_keywords, Lower(description))
    THEN [amount |-> DecAbs(amount), transaction_type |-> "CREDIT"]
    ELSE [amount |-> DecNeg(amount), transaction_type |-> "TRANSFER"]

\* the description of the row: a mapped column, else the longest text, else a
\* numbered placeholder
amex_description(columns, row, k, date_col_idx, amount_col_idx) ==
    LET mapped == amex_mapped_description(columns, row)
        found  == IF mapped # <<>> THEN mapped
                  ELSE amex_longest_text(columns, row, date_col_idx, amount_col_idx)
    IN  IF found # <<>> THEN found ELSE <<"A","M","E","X"," ","T","r","a","n","s","a","c","t","i","o","n"," ">> \o NatStr(k)

\* the Transaction of a row whose date, amount and description are known
amex_transaction(date, amount, description, k) ==
    LET processed == apply_amex_logic(amount, description)
    IN  Transaction(date, processed.amount, description, AmexCounterAccount,
                    amex_reference(k), processed.transaction_type)

\* the rest of _parse_amex_row once the date and the amount were looked for
amex_row_transaction(columns, row, k, date, amount) ==
    IF ~date.ok THEN [ok |-> FALSE]
    ELSE IF ~amount.ok THEN [ok |-> FALSE]
    ELSE [ok |-> TRUE,
          tx |-> amex_transaction(date.val, amount.val,
                    amex_description(columns, row, k, date.idx, amount.idx), k)]

\* _parse_amex_row for the row at 1-based position k: [ok |-> FALSE] for None
parse_amex_row(columns, row, k) ==
    amex_row_transaction(columns, row, k, amex_row_date(row), amex_row_amount(row))

\* the test at the head of the loop of parse_file: an empty first cell
amex_row_is_empty(row) == isna(row[1]) \/ Strip(Str(row[1])) = <<>>

---------------------------------------------------------------------------
(* The sheets AmexParser is run on *)

AmexHeaders ==
    { <<<<"D","a","t","u","m">>, <<"O","m","s","c","h","r","i","j","v","i","n","g">>, <<"B","e","d","r","a","g">>>>,
      <<<<"D","a","t","u","m">>, <<"O","m","s","c","h","r","i","j","v","i","n","g">>, <<"B","e","d","r","a","g">>, <<"V","e","r","m","e","l","d"," ","o","p"," ","u","w"," ","r","e","k","e","n","i","n","g","o","v","e","r","z","i","c","h","t"," ","a","l","s">>>>,
      <<<<"D","a","t","u","m">>, <<"K","a","a","r","t","l","i","d">>, <<"B","e","d","r","a","g">>, <<"A","d","r","e","s">>>> }

\* purchases and refunds, payments of either sign, a totals line, an empty line,
\* a line without an amount, a line whose amount cell cannot be cleaned; the
\* fourth cell is used when the sheet has a fourth column
AmexRows ==
    { <<<<"2","0","2","5","-","0","3","-","0","1">>, <<"U","b","e","r"," ","E","a","t","s">>, <<"1","2",",","5","0">>, <<"U","B","E","R"," ","E","A","T","S"," ","A","M","S","T","E","R","D","A","M">>>>,
      <<<<"datetime">> \o <<"2","0","2","5","-","0","3","-","0","2">>, <<"H","A","R","T","E","L","I","J","K"," ","B","E","D","A","N","K","T"," ","V","O","O","R"," ","U","W"," ","B","E","T","A","L","I","N","G">>,
        <<"-","5","0","0",".","0">>, NaN>>,
      <<<<"0","3","/","1","5","/","2","0","2","5">>, <<"H","a","r","t","e","l","i","j","k"," ","b","e","d","a","n","k","t"," ","v","o","o","r"," ","u","w"," ","b","e","t","a","l","i","n","g">>,
        <<Euro>> \o <<" ","2","5","0",",","0","0">>, NaN>>,
      <<<<"0","1","-","0","3","-","2","0","2","5">>, <<"R","e","f","u","n","d">>, <<"-","2","0",",","0","0">>, <<"R","E","F","U","N","D"," ","S","H","O","P">>>>,
      <<<<"T","o","t","a","a","l">>, <<"S","a","l","d","o">>, <<"1",".","2","3","4",",","5","6">>, NaN>>,
      <<NaN, <<"P","a","g","e">>, <<"1">>, NaN>>,
      <<<<"2","0","2","5","-","0","3","-","0","1">>, <<"P","a","r","k","i","n","g">>, NaN, <<"K","e","i","z","e","r","s","g","r","a","c","h","t">>>>,
      <<<<"2","0","2","5","-","0","3","-","0","1">>, <<"T","a","x","i"," ","4","2">>, <<"1",".","2","3","4",",","5","6">>, NaN>> }

AmexFrame(h, rs) ==
    [columns |-> h, rows |-> [k \in 1..Len(rs) |-> SubSeq(rs[k], 1, Len(h))]]

AmexFramesUpTo(n) == {AmexFrame(h, rs) : h \in AmexHeaders, rs \in SeqsUpTo(AmexRows, n)}

AmexFrames == AmexFramesUpTo(MaxRows)

---------------------------------------------------------------------------
(* parse_file of AmexParser, one row of the sheet per step *)

InitAmex ==
    /\ bank = "amex"
    /\ df \in AmexFrames
    /\ pc = "rows"
    /\ index = 1
    /\ raw_transactions = <<>>
    /\ i = 1
    /\ processed_transactions = <<>>
    /\ call = [op |-> "parse_file"]
    /\ outcome = NoOutcome
    /\ validation = NoOutcome
    /\ now = Clock0
    /\ transaction_reference_counter = 1
    /\ outputs = <<>>

\* the first cell is empty: continue
AmexRowSkipped ==
    /\ pc = "rows" /\ index <= Len(df.rows)
    /\ amex_row_is_empty(df.rows[index])
    /\ index' = index + 1
    /\ UNCHANGED <<bank, df, pc, raw_transactions, i, processed_transactions, call, outcome,
                   validation, formatter_vars>>

\* _parse_amex_row returned None
AmexRowDropped ==
    /\ pc = "rows" /\ index <= Len(df.rows)
    /\ ~amex_row_is_empty(df.rows[index])
    /\ ~parse_amex_row(df.columns, df.rows[index], index).ok
    /\ index' = index + 1
    /\ UNCHANGED <<bank, df, pc, raw_transactions, i, processed_transactions, call, outcome,
                   validation, formatter_vars>>

\* _parse_amex_row returned a Transaction
AmexRowAppended ==
    /\ pc = "rows" /\ index <= Len(df.rows)
    /\ ~amex_row_is_empty(df.rows[index])
    /\ parse_amex_row(df.columns, df.rows[index], index).ok
    /\ processed_transactions' =
          Append(processed_transactions, parse_amex_row(df.columns, df.rows[index], index).tx)
    /\ index' = index + 1
    /\ UNCHANGED <<bank, df, pc, raw_transactions, i, call, outcome, validation, formatter_vars>>

\* the loop is over: parse_file returns the list
AmexEnds ==
    /\ pc = "rows" /\ index > Len(df.rows)
    /\ pc' = "parsed"
    /\ outcome' = [kind |-> "returned"]
    /\ UNCHANGED <<bank, df, index, raw_transactions, i, processed_transactions, call,
                   validation, formatter_vars>>

NextAmex ==
    \/ AmexRowSkipped
    \/ AmexRowDropped
    \/ AmexRowAppended
    \/ AmexEnds

SpecAmex == InitAmex /\ [][NextAmex]_vars

---------------------------------------------------------------------------
(* Claims about AmexParser *)

IsAmexPayment(text) == Contains(Lower(text), <<"h","a","r","t","e","l","i","j","k"," ","b","e","d","a","n","k","t"," ","v","o","o","r"," ","u","w"," ","b","e","t","a","l","i","n","g">>)

\* the sheet rows the loop has passed that the parser made a Transaction of
AmexKept == {k \in 1..(index - 1) :
                /\ ~amex_row_is_empty(df.rows[k])
                /\ amex_row_date(df.rows[k]).ok
                /\ amex_row_amount(df.rows[k]).ok}

\* the sheet row a Transaction was made of, read off its reference 49000000000 + k
AmexRowOf(t) == CHOOSE k \in 1..Len(df.rows) : t.reference = <<"4", "9">> \o ZeroPad(k, 9)

\* C8: every Transaction stands for one sheet row of its own (no two for the same
\* row, in sheet order, none for a row that was not parsed); when its description
\* has the payment keyword its amount is the absolute value of the row's amount
\* and its type CREDIT, otherwise the amount is the negated row amount and the
\* type TRANSFER.
C8_AmexLogic ==
    (bank = "amex" /\ pc \in {"rows", "parsed"}) =>
        /\ Len(processed_transactions) = Cardinality(AmexKept)
        /\ \A j \in 1..Len(processed_transactions) :
              LET t == processed_transactions[j]
                  k == AmexRowOf(t)
                  source == amex_row_amount(df.rows[k]).val
              IN  /\ k \in AmexKept
                  /\ \A j2 \in 1..(j - 1) : AmexRowOf(processed_transactions[j2]) < k
                  /\ IF IsAmexPayment(t.description)
                     THEN /\ Mills(t.amount) = AbsInt(Mills(source))
                          /\ t.transaction_type = "CREDIT"
                     ELSE /\ Mills(t.amount) = 0 - Mills(source)
                          /\ t.transaction_type = "TRANSFER"

\* a payment of -500.0 came out as +500.0 CREDIT, a payment of 250,00 as +250.00
\* CREDIT and the purchase of 12,50 as -12.50 TRANSFER
C8_Witness ==
    /\ bank = "amex" /\ pc = "parsed"
    /\ Len(df.rows) = 3 /\ Len(processed_transactions) = 3
    /\ \E j \in 1..3 :
          /\ df.rows[j][3] = <<"-","5","0","0",".","0">>
          /\ IsAmexPayment(processed_transactions[j].description)
          /\ processed_transactions[j].amount = Dec(5000, 1)
          /\ processed_transactions[j].transaction_type = "CREDIT"
    /\ \E j \in 1..3 :
          /\ df.rows[j][3] = <<Euro>> \o <<" ","2","5","0",",","0","0">>
          /\ processed_transactions[j].amount = Dec(25000, 2)
          /\ processed_transactions[j].transaction_type = "CREDIT"
    /\ \E j \in 1..3 :
          /\ df.rows[j][3] = <<"1","2",",","5","0">>
          /\ processed_transactions[j].amount = Dec(-1250, 2)
          /\ processed_transactions[j].transaction_type = "TRANSFER"

---------------------------------------------------------------------------
(* The references AmexParser synthesizes *)

\* the text of 49000000000 + k
ReferenceNumber(k) == <<"4", "9">> \o ZeroPad(k, 9)

\* the k-th of the sheet rows passed that the parser made a Transaction of
KeptRow(k) ==
    CHOOSE r \in AmexKept : Cardinality({q \in AmexKept : q <= r}) = k

\* C24 as stated: the k-th emitted Transaction has reference 49000000000 + k,
\* also in files in which rows are skipped.
C24_Original ==
    (bank = "amex" /\ pc \in {"rows", "parsed"}) =>
        \A k \in 1..Len(processed_transactions) :
            processed_transactions[k].reference = ReferenceNumber(k)

\* what holds of C24: the reference is 49000000000 plus the position of the
\* source row in the sheet, so the references rise and have a gap for every row
\* that was skipped
C24_NumberedBySheetRow ==
    (bank = "amex" /\ pc \in {"rows", "parsed"}) =>
        /\ Len(processed_transactions) = Cardinality(AmexKept)
        /\ \A k \in 1..Len(processed_transactions) :
              processed_transactions[k].reference = ReferenceNumber(KeptRow(k))

---------------------------------------------------------------------------
(* mt940.formatter.MT940Formatter *)

\* an Optional[str] that is None
NoneStr == <<"None">>

\* the truth value of an Optional[str]: neither None nor ''
Truthy(s) == s # NoneStr /\ s # <<>>

\* old occurs in s at position k
StartsAt(s, k, old) ==
    k + Len(old) - 1 <= Len(s) /\ SubSeq(s, k, k + Len(old) - 1) = old

\* s.replace(old, new) from position k on, for a non-empty old
RECURSIVE ReplaceFrom(_, _, _, _)
ReplaceFrom(s, k, old, new) ==
    IF k > Len(s) THEN <<>>
    ELSE IF StartsAt(s, k, old) THEN new \o ReplaceFrom(s, k + Len(old), old, new)
    ELSE <<s[k]>> \o ReplaceFrom(s, k + 1, old, new)

ReplaceText(s, old, new) == ReplaceFrom(s, 1, old, new)

\* "\n".join(lines)
RECURSIVE Join(_)
Join(lines) ==
    IF lines = <<>> THEN <<>>
    ELSE IF Len(lines) = 1 THEN lines[1]
    ELSE lines[1] \o <<"\n">> \o Join(Tail(lines))

\* the digits of f"{abs(amount):.2f}" as a number of hundredths; a Decimal is
\* rounded half to even by format()
Hundredths(amount) ==
    LET n == IF amount.c < 0 THEN 0 - amount.c ELSE amount.c
        p == Pow10(IF amount.e > 2 THEN amount.e - 2 ELSE 0)
        q == n \div p
        r == n % p
    IN  IF amount.e <= 2 THEN n * Pow10(2 - amount.e)
        ELSE IF 2 * r > p \/ (2 * r = p /\ q % 2 = 1) THEN q + 1
        ELSE q

\* f"{amount_parts[0]:>09}" on the digits of a number
PadLeft9(digits) == IF Len(digits) >= 9 THEN digits ELSE ZeroPad(0, 9 - Len(digits)) \o digits

\* f"{abs(amount):.2f}".replace(".", ","), the integer part padded to 9 digits
mt940_amount_str(h) == PadLeft9(NatStr(h \div 100)) \o <<",">> \o ZeroPad(h % 100, 2)

\* date.strftime("%y%m%d")
strftime_yymmdd(date) == ZeroPad(date.y % 100, 2) \o ZeroPad(date.m, 2) \o ZeroPad(date.d, 2)

\* date.strftime("%Y%m%d")
strftime_Ymd(date) == ZeroPad(date.y, 4) \o ZeroPad(date.m, 2) \o ZeroPad(date.d, 2)

\* date.strftime("%Y-%m-%d")
strftime_iso(date) ==
    ZeroPad(date.y, 4) \o <<"-">> \o ZeroPad(date.m, 2) \o <<"-">> \o ZeroPad(date.d, 2)

\* mutant: a zero balance is written as a debit
format_balance_zero_debit(field_code, amount, currency, date) ==
    <<":">> \o field_code \o <<":">>
    \o (IF amount.c > 0 THEN <<"C">> ELSE <<"D">>)
    \o strftime_yymmdd(date) \o currency \o mt940_amount_str(Hundredths(amount))

\* _format_balance
format_balance(field_code, amount, currency, date) ==
    <<":">> \o field_code \o <<":">>
    \o (IF amount.c >= 0 THEN <<"C">> ELSE <<"D">>)
    \o strftime_yymmdd(date) \o currency \o mt940_amount_str(Hundredths(amount))

\* _get_transaction_code
get_transaction_code(transaction) ==
    CASE transaction.transaction_type = "CARD"         -> <<"N","0","0","2">>
      [] transaction.transaction_type = "TRANSFER"     -> <<"N","5","4","4">>
      [] transaction.transaction_type = "DIRECT_DEBIT" -> <<"N","0","6","4">>
      [] transaction.transaction_type = "CREDIT"       -> <<"N","5","4","1">>
      [] OTHER                                         -> <<"N","5","4","4">>

\* the reference number _format_transaction writes when the counter is at n
ref_number(transaction, n) ==
    IF Truthy(transaction.reference) THEN transaction.reference ELSE ZeroPad(n, 11)

\* mutant: the counter advances for every transaction, with or without a reference
next_counter_every_transaction(transaction, n) == n + 1

\* the counter after _format_transaction
next_counter(transaction, n) == IF Truthy(transaction.reference) THEN n ELSE n + 1

\* _format_transaction with the counter at n: the text written
format_transaction(transaction, n) ==
    <<":","6","1",":">> \o strftime_yymmdd(transaction.date)
    \o (IF transaction.amount.c >= 0 THEN <<"C">> ELSE <<"D">>)
    \o mt940_amount_str(Hundredths(transaction.amount))
    \o get_transaction_code(transaction)
    \o <<"N","O","N","R","E","F","/","/">> \o ref_number(transaction, n)
    \o <<"\n">> \o <<"0","0","0","0","0","0","0","0","0","0">>

\* the rest of _format_transaction_info, on the upper-cased description
transaction_info_of(trcd_code, description) ==
    <<":","8","6",":","/","T","R","C","D","/">> \o trcd_code \o <<"/","B","E","N","M","/","/","N","A","M","E","/">>
    \o (IF Len(description) > 25
        THEN SubSeq(description, 1, 25) \o <<"/","R","E","M","I","/">> \o SubSeq(description, 26, Len(description))
        ELSE description)

\* _format_transaction_info
format_transaction_info(transaction) ==
    transaction_info_of(IF transaction.transaction_type = "CARD" THEN <<"0","0","2">> ELSE <<"5","4","4">>,
                        Upper(transaction.description))

\* the loop of format_statement over statement.transactions: the lines written
\* and the counter left
RECURSIVE format_transactions(_, _, _)
format_transactions(transactions, n, lines) ==
    IF transactions = <<>> THEN [lines |-> lines, counter |-> n]
    ELSE format_transactions(
            Tail(transactions),
            next_counter(Head(transactions), n),
            lines \o << format_transaction(Head(transactions), n),
                        format_transaction_info(Head(transactions)) >>)

\* statement.statement_number.replace('CC20', '').replace('25', '25'), cut to its
\* last five characters
seq_number_of(seq_number) ==
    IF Len(seq_number) > 5 THEN SubSeq(seq_number, Len(seq_number) - 4, Len(seq_number))
    ELSE seq_number

\* statement.date or datetime.now()
date_or_now(statement, clock) == IF statement.date.is_none THEN clock ELSE statement.date.value

\* the lines of format_statement once the transaction lines are known
statement_lines(statement, date, transaction_lines) ==
    << <<":","9","4","0",":">>,
       <<":","2","0",":">> \o ReplaceText(statement.statement_number, <<"C","C">>, <<"9","4","0","S">>),
       <<":","2","5",":">> \o statement.account_number \o <<" ">> \o statement.currency,
       <<":","2","8","C",":">> \o seq_number_of(ReplaceText(statement.statement_number, <<"C","C","2","0">>, <<>>)),
       format_balance(<<"6","0","F">>, statement.opening_balance, statement.currency, date) >>
    \o transaction_lines
    \o << format_balance(<<"6","2","F">>, statement.closing_balance, statement.currency, date),
          format_balance(<<"6","4">>, statement.closing_balance, statement.currency, date),
          format_balance(<<"6","5">>, statement.closing_balance, statement.currency, date) >>

\* MT940Formatter.format_statement: the counter is reset to 1, the text is
\* returned and the counter is left where the loop took it
format_statement(statement, clock) ==
    [text    |-> Join(statement_lines(statement, date_or_now(statement, clock),
                                      format_transactions(statement.transactions, 1, <<>>).lines)),
     counter |-> format_transactions(statement.transactions, 1, <<>>).counter]

---------------------------------------------------------------------------
(* camt.formatter.CAMT053Formatter: the element tree format_statement builds. *)
(* ET.tostring and minidom's toprettyxml, which write the tree out, are       *)
(* library code and are not modelled: the document is the tree.              *)

Element(tag, attrib, text, children) ==
    [tag |-> tag, attrib |-> attrib, text |-> text, children |-> children]

\* an element that holds text only
Leaf(tag, text) == Element(tag, <<>>, text, <<>>)

\* an element that holds elements only
Node(tag, children) == Element(tag, <<>>, <<>>, children)

\* f"{abs(amount):.2f}"
camt_amount_str(h) == NatStr(h \div 100) \o <<".">> \o ZeroPad(h % 100, 2)

\* datetime.now().strftime('%H%M%S')
strftime_HMS(clock) == ZeroPad(clock.hh, 2) \o ZeroPad(clock.mm, 2) \o ZeroPad(clock.ss, 2)

\* datetime.now().strftime("%Y-%m-%dT%H:%M:%S")
strftime_timestamp(clock) ==
    strftime_iso(clock) \o <<"T">> \o ZeroPad(clock.hh, 2) \o <<":">> \o ZeroPad(clock.mm, 2)
    \o <<":">> \o ZeroPad(clock.ss, 2)

\* the GrpHdr element
group_header(statement, clock) ==
    Node("GrpHdr",
         << Leaf("MsgId", <<"R","A","B","O">> \o statement.statement_number \o strftime_HMS(clock)),
            Leaf("CreDtTm", strftime_timestamp(clock)),
            Node("MsgRcpt", << Leaf("Nm", <<"C","u","s","t","o","m","e","r">>) >>),
            Node("InitgPty",
                 << Leaf("Nm", <<"R","a","b","o","b","a","n","k"," ","N","e","d","e","r","l","a","n","d">>),
                    Node("Id", << Node("OrgId", << Leaf("BIC", <<"R","A","B","O","N","L","2","U">>) >>) >>) >>) >>)

\* the Acct element
account_element(statement) ==
    Node("Acct",
         << Node("Id", << Leaf("IBAN", statement.account_number) >>),
            Leaf("Ccy", statement.currency),
            Node("Ownr", << Leaf("Nm", <<"R","a","b","o","b","a","n","k">>) >>),
            Node("Svcr", << Node("FinInstnId", << Leaf("BIC", <<"R","A","B","O","N","L","2","U">>),
                                                  Leaf("Nm", <<"R","a","b","o","b","a","n","k"," ","N","e","d","e","r","l","a","n","d">>) >>) >>) >>)

\* the Bal element
balance_element(statement, clock) ==
    Node("Bal",
         << Node("Tp", << Node("CdOrPrtry", << Leaf("Cd", <<"C","L","B","D">>) >>) >>),
            Element("Amt", << <<"Ccy", statement.currency>> >>,
                    camt_amount_str(Hundredths(statement.closing_balance)), <<>>),
            Leaf("CdtDbtInd", IF statement.closing_balance.c >= 0 THEN <<"C","R","D","T">> ELSE <<"D","B","I","T">>),
            Node("Dt", << Leaf("Dt", strftime_iso(date_or_now(statement, clock))) >>) >>)

\* the family code of a transaction type
family_code(transaction_type) ==
    CASE transaction_type = "CARD"         -> <<"C","C","R","D">>
      [] transaction_type = "TRANSFER"     -> <<"I","C","D","T">>
      [] transaction_type = "DIRECT_DEBIT" -> <<"D","D","B","T">>
      [] OTHER                             -> <<"T","R","A","F">>

\* the TxDtls element of _add_transaction
transaction_details(transaction, seq_num) ==
    Node("TxDtls",
         << Node("Refs",
                 << Leaf("EndToEndId", IF Truthy(transaction.reference) THEN transaction.reference
                                       ELSE <<"E","2","E">> \o ZeroPad(seq_num, 6)),
                    Leaf("TxId", <<"R","A","B","O">> \o ZeroPad(seq_num, 10)),
                    Leaf("InstrId", <<"I","N","S","T","R">> \o ZeroPad(seq_num, 6)) >>) >>
         \o (IF Truthy(transaction.counter_account)
             THEN << Node("RltdPties",
                          << Node("DbtrAcct",
                                  << Node("Id", << Leaf("IBAN", transaction.counter_account) >>) >>) >>) >>
             ELSE <<>>)
         \o << Node("RmtInf",
                    << Leaf("Ustrd", SubSeq(transaction.description, 1,
                                            Min(140, Len(transaction.description)))) >>),
               Node("BkTxCd",
                    << Node("Domn",
                            << Leaf("Cd", <<"P","M","N","T">>),
                               Node("Fmly",
                                    << Leaf("Cd", family_code(transaction.transaction_type)) >>) >>) >>) >>)

\* _add_transaction: the Ntry element of the transaction at position seq_num
add_transaction(transaction, seq_num) ==
    Node("Ntry",
         << Element("Amt", << <<"Ccy", <<"E","U","R">>>> >>,
                    camt_amount_str(Hundredths(transaction.amount)), <<>>),
            Leaf("CdtDbtInd", IF transaction.amount.c >= 0 THEN <<"C","R","D","T">> ELSE <<"D","B","I","T">>),
            Leaf("Sts", <<"B","O","O","K">>),
            Node("BookgDt", << Leaf("Dt", strftime_iso(transaction.date)) >>),
            Node("ValDt", << Leaf("Dt", strftime_iso(transaction.date)) >>),
            Leaf("AcctSvcrRef", IF Truthy(transaction.reference) THEN transaction.reference
                                ELSE <<"R","A","B","O">> \o ZeroPad(seq_num, 10)),
            Node("NtryDtls", << transaction_details(transaction, seq_num) >>) >>)

\* CAMT053Formatter.format_statement
camt_format_statement(statement, clock) ==
    Element("Document",
            << <<"xmlns", <<"u","r","n",":","i","s","o",":","s","t","d",":","i","s","o",":","2","0","0","2","2",":","t","e","c","h",":","x","s","d",":","c","a","m","t",".","0","5","3",".","0","0","1",".","0","2">>>>,
               <<"xmlns:xsi", <<"h","t","t","p",":","/","/","w","w","w",".","w","3",".","o","r","g","/","2","0","0","1","/","X","M","L","S","c","h","e","m","a","-","i","n","s","t","a","n","c","e">>>> >>,
            <<>>,
            << Node("BkToCstmrStmt",
                    << group_header(statement, clock),
                       Node("Stmt",
                            << Leaf("Id", statement.statement_number),
                               Leaf("CreDtTm", strftime_timestamp(clock)),
                               account_element(statement),
                               balance_element(statement, clock) >>
                            \o [k \in 1..Len(statement.transactions) |->
                                   add_transaction(statement.transactions[k], k)]) >>) >>)

---------------------------------------------------------------------------
(* parse_file of each parser as a whole, as the TransactionProcessor calls it *)

RECURSIVE ics_parse_raw_rows(_, _, _)
RECURSIVE ics_parse_raw_rest(_, _, _, _)
ics_parse_raw_rows(columns, rows, acc) ==
    IF rows = <<>> THEN [raised |-> FALSE, raw |-> acc]
    ELSE ics_parse_raw_rest(columns, rows, acc, ics_parse_raw_row(columns, Head(rows)))

\* the loop of IcsParser._parse_raw_transactions after one row was read
ics_parse_raw_rest(columns, rows, acc, r) ==
    IF r.kind = "raise" THEN [raised |-> TRUE, raw |-> acc]
    ELSE ics_parse_raw_rows(columns, Tail(rows),
                            IF r.kind = "raw" THEN Append(acc, r.tx) ELSE acc)

\* IcsParser._apply_business_rules
ics_apply_business_rules(raw) == [k \in 1..Len(raw) |-> ics_business_rule(raw, k)]

\* the loop of AmexParser.parse_file from the row at position k on
RECURSIVE amex_parse_rows(_, _, _, _)
RECURSIVE amex_parse_rest(_, _, _, _, _)
amex_parse_rows(columns, rows, k, acc) ==
    IF k > Len(rows) THEN acc
    ELSE IF amex_row_is_empty(rows[k]) THEN amex_parse_rows(columns, rows, k + 1, acc)
    ELSE amex_parse_rest(columns, rows, k, acc, parse_amex_row(columns, rows[k], k))

\* the loop of AmexParser.parse_file after the row at position k was parsed
amex_parse_rest(columns, rows, k, acc, r) ==
    amex_parse_rows(columns, rows, k + 1, IF r.ok THEN Append(acc, r.tx) ELSE acc)

\* the result of the rule pass on what the raw loop gave
rules_of_raw(b, r) ==
    IF r.raised THEN [raised |-> TRUE, transactions |-> <<>>]
    ELSE [raised |-> FALSE,
          transactions |->
             IF b = "ics" THEN ics_apply_business_rules(r.raw)
             ELSE apply_business_rules(b, r.raw)]

---------------------------------------------------------------------------
(* Files.  A file pandas can read is its DataFrame [columns, rows]; a file it *)
(* cannot read is the exception read_csv / read_excel raises on it.          *)

\* a path with no file behind it
MissingFile == [error |-> "FileNotFoundError"]

\* a file of zero bytes
EmptyFile == [error |-> "EmptyDataError"]

\* a file whose bytes are no UTF-8; latin1 is what the latin-1 fallback reads
UndecodableFile(latin1) == [error |-> "UnicodeDecodeError", latin1 |-> latin1]

is_readable(d) == "error" \notin DOMAIN d

\* what the latin-1 fallback makes of bytes that are no text: one column with a
\* garbled name, and no row or one row
GarbledFrames ==
    { [columns |-> {"garbled"}, rows |-> <<>>],
      [columns |-> {"garbled"}, rows |-> << [c \in {"garbled"} |-> <<"x">>] >>] }

UnreadableFiles == {MissingFile, EmptyFile} \cup {UndecodableFile(g) : g \in GarbledFrames}

\* pd.read_csv / pd.read_excel as the parser b calls it: the Rabobank and ICS
\* parsers retry with latin-1, which decodes any bytes; CSVParser reads UTF-8
\* only; read_excel fails on anything that is no workbook
read_file(b, d) ==
    IF is_readable(d) THEN [raised |-> FALSE, df |-> d]
    ELSE IF d.error = "UnicodeDecodeError" /\ b \in {"rabobank_old", "rabobank_new", "ics"}
    THEN [raised |-> FALSE, df |-> d.latin1]
    ELSE [raised |-> TRUE, error |-> d.error]

\* the rest of parse_file once the DataFrame is read
parse_frame(b, d) ==
    CASE b \in {"rabobank_old", "rabobank_new", "csv"} ->
            rules_of_raw(b, parse_raw_transactions(b, d))
      [] b = "ics"  -> rules_of_raw(b, ics_parse_raw_rows(d.columns, d.rows, <<>>))
      [] b = "amex" ->
            [raised |-> FALSE,
             transactions |-> amex_parse_rows(d.columns, d.rows, 1, <<>>)]

\* parser.parse_file(file_path) / CSVParser.parse_csv(file_path): the list of
\* Transactions, or raised
parse_file(b, d) ==
    IF read_file(b, d).raised THEN [raised |-> TRUE, transactions |-> <<>>]
    ELSE parse_frame(b, read_file(b, d).df)

\* the account number of get_account_info on the DataFrame, or raised (IndexError
\* of df.iloc[0] on an empty file, KeyError of an absent column)
account_number_of(b, d) ==
    CASE b = "rabobank_old" -> [raised |-> FALSE, account_number |-> DefaultRabobankIban]
      [] b \in {"rabobank_new", "csv"} ->
            IF Len(d.rows) = 0 \/ column_of(b, d.columns, "Counterpty IBAN") \notin d.columns
            THEN [raised |-> TRUE]
            ELSE [raised |-> FALSE,
                  account_number |->
                     Strip(Str(d.rows[1][column_of(b, d.columns, "Counterpty IBAN")]))]
      [] b = "ics" ->
            [raised |-> FALSE,
             account_number |->
                IF \E k \in 1..Len(d.rows) : notna(row_get(d.columns, d.rows[k], "Card nummer", NaN))
                THEN LET k == CHOOSE k \in 1..Len(d.rows) :
                                 /\ notna(row_get(d.columns, d.rows[k], "Card nummer", NaN))
                                 /\ \A m \in 1..(k - 1) :
                                       isna(row_get(d.columns, d.rows[m], "Card nummer", NaN))
                     IN  <<"N","L","0","0","I","C","S","0">> \o ReplaceChar(Strip(Str(d.rows[k]["Card nummer"])), "*", <<"0">>)
                ELSE <<"N","L","0","0","I","C","S","0","0","0","0","0","0","0","0","0","0">>]
      [] b = "amex" -> [raised |-> FALSE, account_number |-> AmexCounterAccount]

\* the date get_account_info reads from a row of a CSV file: the date column when
\* the file has it and the cell is no NaN and parses
csv_row_date(columns, row, date_col, format) ==
    IF date_col \in columns /\ notna(row[date_col])
    THEN ParseDate(format, Strip(Str(row[date_col])))
    ELSE [ok |-> FALSE]

\* the date get_account_info of AmexParser reads from a row: the first of the
\* first two cells that is no NaN and parses
amex_info_row_date(row) ==
    IF notna(row[1]) /\ amex_parse_date(row[1]).ok THEN amex_parse_date(row[1])
    ELSE IF Len(row) > 1 /\ notna(row[2]) THEN amex_parse_date(row[2])
    ELSE [ok |-> FALSE]

\* the date get_account_info reads from the row
info_row_date(b, columns, row) ==
    CASE b \in {"rabobank_old", "csv"} -> csv_row_date(columns, row, "Datum", "%d-%m-%Y")
      [] b = "rabobank_new" ->
            csv_row_date(columns, row, normalize_column_name(columns, "Date"), "%Y-%m-%d")
      [] b = "ics"  -> csv_row_date(columns, row, "Transactiedatum", "%d-%m-%Y")
      [] b = "amex" -> amex_info_row_date(row)

\* the order of datetimes, on year, month and day
DateLE(a, b) ==
    \/ a.y < b.y
    \/ (a.y = b.y /\ a.m < b.m)
    \/ (a.y = b.y /\ a.m = b.m /\ a.d <= b.d)

\* the dates get_account_info collected
info_dates(b, d) ==
    {LET v == info_row_date(b, d.columns, d.rows[k]).val
     IN  DateTime(v.y, v.m, v.d, 0, 0, 0) :
        k \in {m \in 1..Len(d.rows) : info_row_date(b, d.columns, d.rows[m]).ok}}

\* min(dates) if dates else datetime.now(), and max likewise
date_range(dates, clock) ==
    IF dates = {} THEN [start_date |-> clock, end_date |-> clock]
    ELSE [start_date |-> CHOOSE a \in dates : \A x \in dates : DateLE(a, x),
          end_date   |-> CHOOSE a \in dates : \A x \in dates : DateLE(x, a)]

\* the dict of get_account_info once the file is read
account_info_of(account, range) ==
    IF account.raised THEN [raised |-> TRUE]
    ELSE [raised |-> FALSE, account_number |-> account.account_number,
          start_date |-> range.start_date, end_date |-> range.end_date]

\* parser.get_account_info(file_path) when the clock reads clock
get_account_info(b, d, clock) ==
    IF read_file(b, d).raised THEN [raised |-> TRUE]
    ELSE account_info_of(account_number_of(b, read_file(b, d).df),
                         date_range(info_dates(b, read_file(b, d).df), clock))

---------------------------------------------------------------------------
(* MT940Formatter.calculate_closing_balance, BaseParser.calculate_totals,   *)
(* TransactionProcessor                                                     *)

\* sum(t.amount for t in transactions) from the running total acc; sum() starts at int 0
RECURSIVE sum_amounts(_, _)
sum_amounts(transactions, acc) ==
    IF transactions = <<>> THEN acc
    ELSE sum_amounts(Tail(transactions), DecAdd(acc, Head(transactions).amount))

\* mutant: the opening balance is left out
calculate_closing_balance_of_period(opening_balance, transactions) ==
    sum_amounts(transactions, Dec(0, 0))

calculate_closing_balance(opening_balance, transactions) ==
    DecAdd(opening_balance, sum_amounts(transactions, Dec(0, 0)))

\* _calculate_opening_balance: Decimal('0.00')
calculate_opening_balance(transactions) == Dec(0, 2)

IsCredit(t) == DecPos(t.amount)
IsDebit(t) == DecNegative(t.amount)

\* the dict of calculate_totals once the two sums are known
totals_of(total_credits, total_debits, transactions) ==
    [total_credits     |-> total_credits,
     total_debits      |-> total_debits,
     net_total         |-> DecAdd(total_credits, total_debits),
     transaction_count |-> Len(transactions)]

\* mutant: the debits are added up by absolute value
calculate_totals_abs_debits(transactions) ==
    totals_of(sum_amounts(SelectSeq(transactions, IsCredit), Dec(0, 0)),
              DecAbs(sum_amounts(SelectSeq(transactions, IsDebit), Dec(0, 0))),
              transactions)

\* BaseParser.calculate_totals (CSVParser.calculate_totals has the same body)
calculate_totals(transactions) ==
    totals_of(sum_amounts(SelectSeq(transactions, IsCredit), Dec(0, 0)),
              sum_amounts(SelectSeq(transactions, IsDebit), Dec(0, 0)),
              transactions)

\* an Optional argument: None, or a value
None == [is_none |-> TRUE]
Some(v) == [is_none |-> FALSE, value |-> v]

---------------------------------------------------------------------------
(* parsers.parser_factory.ParserFactory *)

\* list(self._parsers.keys()): the keys in the order of the dict
available_banks ==
    << <<"r","a","b","o","b","a","n","k","_","o","l","d">>, <<"r","a","b","o","b","a","n","k","_","n","e","w">>, <<"i","n","g">>, <<"a","m","e","x">>, <<"i","c","s">>, <<"e","x","c","e","l">> >>

\* ParserFactory._parsers, by its keys; the IngParser and the ExcelParser are
\* created and described, their parse_file is not modelled
ParserRegistry == {available_banks[k] : k \in 1..Len(available_banks)}

\* the parser class of a key of the registry, as a string
KeyOf(name) ==
    CASE name = <<"r","a","b","o","b","a","n","k","_","o","l","d">> -> "rabobank_old"
      [] name = <<"r","a","b","o","b","a","n","k","_","n","e","w">> -> "rabobank_new"
      [] name = <<"i","n","g">>          -> "ing"
      [] name = <<"a","m","e","x">>         -> "amex"
      [] name = <<"i","c","s">>          -> "ics"
      [] name = <<"e","x","c","e","l">>        -> "excel"

\* the items of repr() of a list of str
RECURSIVE repr_items(_)
repr_items(keys) ==
    IF keys = <<>> THEN <<>>
    ELSE <<"'">> \o Head(keys) \o <<"'">>
         \o (IF Len(keys) > 1 THEN <<","," ">> ELSE <<>>) \o repr_items(Tail(keys))

\* f"{available_banks}" for a list of str
list_repr(keys) == <<"[">> \o repr_items(keys) \o <<"]">>

\* the message of the ValueError create_parser raises
unknown_bank_message(bank_name) ==
    <<"U","n","k","n","o","w","n"," ","b","a","n","k"," ","'">> \o bank_name \o <<"'","."," ","A","v","a","i","l","a","b","l","e"," ","b","a","n","k","s",":"," ">> \o list_repr(available_banks)

\* an exception leaving the call
Raised(error, message) == [kind |-> "raised", error |-> error, message |-> message]

\* mutant: the key is looked up as it is written
create_parser_case_sensitive(bank_name) ==
    IF bank_name \notin ParserRegistry THEN "none" ELSE KeyOf(bank_name)

\* ParserFactory.create_parser(bank): the parser's class, "none" for ValueError
create_parser(bank_name) ==
    IF Lower(bank_name) \notin ParserRegistry THEN "none" ELSE KeyOf(Lower(bank_name))

\* what create_parser hands back or raises
create_parser_outcome(bank_name) ==
    IF create_parser(bank_name) = "none"
    THEN Raised("ValueError", unknown_bank_message(bank_name))
    ELSE [kind |-> "parser", parser |-> create_parser(bank_name)]

\* get_bank_name of the parser class
get_bank_name(key) ==
    CASE key \in {"rabobank_old", "rabobank_new"} -> <<"R","a","b","o","b","a","n","k">>
      [] key = "ing"   -> <<"I","N","G">>
      [] key = "amex"  -> <<"A","M","E","X">>
      [] key = "ics"   -> <<"I","C","S">>
      [] key = "excel" -> <<"E","x","c","e","l"," ","(","H","a","n","d","m","a","t","i","g",")">>

\* get_supported_file_types of the parser class
get_supported_file_types(key) ==
    IF key \in {"amex", "excel"} THEN << <<"x","l","s","x">>, <<"x","l","s">> >> ELSE << <<"c","s","v">> >>

\* the display name get_available_banks gives a key
display_name(key) ==
    CASE key = "rabobank_old" -> <<"R","a","b","o","b","a","n","k"," ","(","O","l","d"," ","F","o","r","m","a","t",")">>
      [] key = "rabobank_new" -> <<"R","a","b","o","b","a","n","k"," ","(","N","e","w"," ","F","o","r","m","a","t",")">>
      [] OTHER                -> get_bank_name(key)

\* ParserFactory.get_available_banks: the dict, by key
get_available_banks ==
    [name \in ParserRegistry |->
        [name            |-> get_bank_name(KeyOf(name)),
         supported_files |-> get_supported_file_types(KeyOf(name)),
         display_name    |-> display_name(KeyOf(name))]]

---------------------------------------------------------------------------
(* validate_file_format of the parsers.  The 'error' entry is modelled by the *)
(* fixed head of its message; NoneStr stands for a result without the entry. *)

ValidationResult(valid, error) == [kind |-> "validation", valid |-> valid, error |-> error]

rabobank_old_required_columns ==
    {"Tegenrekening IBAN", "Transactiereferentie", "Datum", "Bedrag", "Omschrijving"}

\* the required columns validate_file_format of the parser finds missing
missing_columns(b, columns) ==
    CASE b = "rabobank_old" -> rabobank_old_required_columns \ columns
      [] b = "rabobank_new" ->
            {c \in EnglishColumns : c \notin columns /\ column_mapping[c] \notin columns}
      [] b = "ics" -> ics_required_columns \ columns

\* the checks validate_file_format makes on one of the first five rows
row_validates(b, columns, row) ==
    CASE b = "rabobank_old" ->
            /\ ParseDate("%d-%m-%Y", Str(row["Datum"])).ok
            /\ ParseDecimal(ReplaceChar(Str(row["Bedrag"]), ",", <<".">>)).ok
      [] b = "rabobank_new" ->
            /\ ParseDate("%Y-%m-%d", Str(row[normalize_column_name(columns, "Date")])).ok
            /\ ParseDecimal(ReplaceChar(Str(row[normalize_column_name(columns, "Amount")]),
                                        ",", <<".">>)).ok
      [] b = "ics" -> ics_row_validates(columns, row)

\* validate_file_format of a CSV parser once the file is read
csv_validate_frame(b, d) ==
    IF missing_columns(b, d.columns) # {}
    THEN ValidationResult(FALSE, <<"M","i","s","s","i","n","g"," ","r","e","q","u","i","r","e","d"," ","c","o","l","u","m","n","s",":"," ">>)
    ELSE IF Len(d.rows) = 0 THEN ValidationResult(FALSE, <<"C","S","V"," ","f","i","l","e"," ","i","s"," ","e","m","p","t","y">>)
    ELSE IF \E k \in 1..Min(5, Len(d.rows)) : ~row_validates(b, d.columns, d.rows[k])
    THEN ValidationResult(FALSE, <<"F","o","r","m","a","t"," ","v","a","l","i","d","a","t","i","o","n"," ","e","r","r","o","r","s",":"," ">>)
    ELSE ValidationResult(TRUE, NoneStr)

\* AmexParser.validate_file_format once the sheet is read, on a file named
\* .xlsx: _parse_amex_row of a parser that has read no header
amex_validate_frame(d) ==
    IF Len(d.rows) = 0 THEN ValidationResult(FALSE, <<"E","x","c","e","l"," ","f","i","l","e"," ","i","s"," ","e","m","p","t","y">>)
    ELSE IF \A k \in 1..Len(d.rows) : ~parse_amex_row(<<>>, d.rows[k], k).ok
    THEN ValidationResult(FALSE, <<"N","o"," ","v","a","l","i","d"," ","t","r","a","n","s","a","c","t","i","o","n","s"," ","f","o","u","n","d"," ","i","n"," ","A","M","E","X"," ","E","x","c","e","l"," ","f","i","l","e",".">>)
    ELSE ValidationResult(TRUE, NoneStr)

\* parser.validate_file_format(file_path): every exception of the read is turned
\* into a result by the except clause
validate_file_format(b, d) ==
    IF read_file(b, d).raised
    THEN ValidationResult(FALSE, IF b = "amex" THEN <<"C","o","u","l","d"," ","n","o","t"," ","r","e","a","d"," ","E","x","c","e","l"," ","f","i","l","e",".">>
                                 ELSE <<"E","r","r","o","r"," ","r","e","a","d","i","n","g"," ">>)
    ELSE IF b = "amex" THEN amex_validate_frame(read_file(b, d).df)
    ELSE csv_validate_frame(b, read_file(b, d).df)

---------------------------------------------------------------------------
(* processors.transaction_processor.TransactionProcessor *)

\* _generate_statement_number
generate_statement_number(start_date) == <<"C","C">> \o strftime_Ymd(start_date)

\* mt940.formatter.AccountStatement
AccountStatement(account_number, statement_number, opening_balance, closing_balance, transactions, date) ==
    [account_number   |-> account_number,
     statement_number |-> statement_number,
     opening_balance  |-> opening_balance,
     closing_balance  |-> closing_balance,
     transactions     |-> transactions,
     currency         |-> <<"E","U","R">>,
     date             |-> Some(date)]

\* override or default, for an Optional[str] override: None and '' are falsy
or_default(override, default) ==
    IF ~override.is_none /\ override.value # <<>> THEN override.value ELSE default

\* mutant: the statement number is always the generated one
statement_of_generated_number(c, transactions, account_info, opening_balance) ==
    AccountStatement(
        or_default(c.account_number, account_info.account_number),
        generate_statement_number(account_info.start_date),
        opening_balance,
        calculate_closing_balance(opening_balance, transactions),
        transactions,
        account_info.end_date)

\* the statement built from the parsed list, the account info and the arguments
statement_of(c, transactions, account_info, opening_balance) ==
    AccountStatement(
        or_default(c.account_number, account_info.account_number),
        or_default(c.statement_number, generate_statement_number(account_info.start_date)),
        opening_balance,
        calculate_closing_balance(opening_balance, transactions),
        transactions,
        account_info.end_date)

\* mutant: the statement lists the newest transaction first
convert_newest_first(c, parsed, account_info) ==
    IF parsed.raised \/ account_info.raised THEN Raised("parser", <<>>)
    ELSE [kind      |-> "statement",
          statement |-> statement_of(c,
                           [k \in 1..Len(parsed.transactions) |->
                               parsed.transactions[Len(parsed.transactions) + 1 - k]],
                           account_info,
                           IF c.opening_balance.is_none
                           THEN calculate_opening_balance(parsed.transactions)
                           ELSE c.opening_balance.value)]

\* the body shared by process_file_to_mt940, process_file_to_camt053 and
\* process_csv_to_mt940 once the parser is chosen, the file parsed and the
\* account info read, up to the statement
convert(c, parsed, account_info) ==
    IF parsed.raised \/ account_info.raised THEN Raised("parser", <<>>)
    ELSE [kind      |-> "statement",
          statement |-> statement_of(c, parsed.transactions, account_info,
                           IF c.opening_balance.is_none
                           THEN calculate_opening_balance(parsed.transactions)
                           ELSE c.opening_balance.value)]

\* process_file_to_mt940 / process_file_to_camt053 for the bank named, up to the
\* statement
process_file(c, bank_name, d, clock) ==
    IF create_parser(bank_name) = "none" THEN create_parser_outcome(bank_name)
    ELSE convert(c, parse_file(create_parser(bank_name), d),
                 get_account_info(create_parser(bank_name), d, clock))

\* process_csv_to_mt940, up to the statement: the legacy CSVParser, whatever the
\* registry holds
process_csv(c, d, clock) == convert(c, parse_file("csv", d), get_account_info("csv", d, clock))

\* the bank process_csv_to_camt053 passes on
LegacyBank == <<"r","a","b","o","b","a","n","k">>

\* the dict of get_transaction_summary once the file is parsed
summary_of(parsed, account_info) ==
    IF parsed.raised \/ account_info.raised THEN Raised("parser", <<>>)
    ELSE [kind           |-> "summary",
          account_number |-> account_info.account_number,
          totals         |-> calculate_totals(parsed.transactions),
          transactions   |-> parsed.transactions]

get_transaction_summary(c, d, clock) ==
    IF create_parser(c.bank) = "none" THEN create_parser_outcome(c.bank)
    ELSE summary_of(parse_file(create_parser(c.bank), d),
                    get_account_info(create_parser(c.bank), d, clock))

\* what parser.get_account_info hands back or raises
account_info_outcome(info) ==
    IF info.raised THEN Raised("parser", <<>>)
    ELSE [kind |-> "account_info", account_number |-> info.account_number,
          start_date |-> info.start_date, end_date |-> info.end_date]

\* TransactionProcessor.validate_file_format: create_parser stands outside any try
processor_validate_file_format(c, d) ==
    IF create_parser(c.bank) = "none" THEN create_parser_outcome(c.bank)
    ELSE validate_file_format(create_parser(c.bank), d)

---------------------------------------------------------------------------
(* The calls the TransactionProcessor is given *)

\* keys of the parsers whose parse_file is modelled, in two letter cases, and a
\* name the registry does not hold
BankNames == {<<"r","a","b","o","b","a","n","k","_","o","l","d">>, <<"r","a","b","o","b","a","n","k","_","n","e","w">>, <<"i","c","s">>, <<"I","C","S">>, <<"a","m","e","x">>, <<"r","a","b","o","b","a","n","k">>}

\* the names create_parser is called with
FactoryNames ==
    BankNames \cup {<<"i","n","g">>, <<"I","N","G">>, <<"e","x","c","e","l">>, <<"R","a","b","o","b","a","n","k","_","O","l","d">>, <<"a","b","n">>, <<>>}

\* the parsers get_account_info is called on
ParserNames == {<<"r","a","b","o","b","a","n","k","_","o","l","d">>, <<"r","a","b","o","b","a","n","k","_","n","e","w">>, <<"c","s","v">>, <<"i","c","s">>, <<"a","m","e","x">>}

Overrides(account_number, statement_number, opening_balance) ==
    [account_number |-> account_number, statement_number |-> statement_number,
     opening_balance |-> opening_balance]

NoOverrides == Overrides(None, None, None)

\* the optional arguments of a conversion: none, some, all, and empty strings
OverrideChoices ==
    { Overrides(a, None, o) : a \in {None, Some(<<"N","L","1","1","T","E","S","T","0","0","0","0","0","0","0","0","0","1">>)},
                              o \in {None, Some(Dec(10050, 2)), Some(Dec(-5, 1))} }
    \cup
    { Overrides(Some(<<"N","L","1","1","T","E","S","T","0","0","0","0","0","0","0","0","0","1">>), Some(<<"C","C","2","0","2","4","0","1","3","1">>), Some(Dec(0, 0))),
      Overrides(None, Some(<<"S","T","M","T","7">>), None),
      Overrides(Some(<<>>), Some(<<>>), None) }

Call(op, bank_name, o) ==
    [op |-> op, bank |-> bank_name, account_number |-> o.account_number,
     statement_number |-> o.statement_number, opening_balance |-> o.opening_balance]

ProcCalls ==
    { Call(op, b, o) : op \in {"process_file_to_mt940", "process_file_to_camt053"},
                       b \in BankNames, o \in OverrideChoices }
    \cup { Call(op, <<"c","s","v">>, o) : op \in {"process_csv_to_mt940", "process_csv_to_camt053"},
                                  o \in OverrideChoices }
    \cup { Call(op, b, NoOverrides) : op \in {"get_transaction_summary", "validate_file_format"},
                                      b \in BankNames }
    \cup { Call("get_account_info", b, NoOverrides) : b \in ParserNames }
    \cup { Call("create_parser", b, NoOverrides) : b \in FactoryNames }
    \cup { Call("get_available_banks", <<>>, NoOverrides) }

\* the parser a call ends up with
ParserOf(c) ==
    CASE c.op = "process_csv_to_mt940"   -> "csv"
      [] c.op = "process_csv_to_camt053" -> create_parser(LegacyBank)
      [] c.op = "get_available_banks"    -> "none"
      [] c.op = "get_account_info"       ->
            IF c.bank = <<"c","s","v">> THEN "csv" ELSE create_parser(c.bank)
      [] OTHER                           -> create_parser(c.bank)

\* the files a call is given: files of the bank named, files that cannot be
\* read, and files of the old Rabobank format when no parser is named
ProcFrames(c) ==
    CASE c.op = "create_parser" \/ c.op = "get_available_banks" ->
            RuleFramesUpTo("rabobank_old", 0)
      [] c.op = "process_csv_to_camt053" -> RuleFramesUpTo("csv", 1)
      [] ParserOf(c) \in {"rabobank_old", "rabobank_new", "csv"} ->
            RuleFramesUpTo(ParserOf(c), MaxProcRows) \cup UnreadableFiles
      [] ParserOf(c) = "ics"  -> IcsFramesUpTo(MaxProcRows) \cup UnreadableFiles
      [] ParserOf(c) = "amex" -> AmexFramesUpTo(MaxProcRows) \cup UnreadableFiles
      [] OTHER                -> RuleFramesUpTo("rabobank_old", 1) \cup UnreadableFiles

InitProc ==
    /\ call \in ProcCalls
    /\ bank = ParserOf(call)
    /\ df \in ProcFrames(call)
    /\ pc = "call"
    /\ index = 1
    /\ raw_transactions = <<>>
    /\ i = 1
    /\ processed_transactions = <<>>
    /\ outcome = NoOutcome
    /\ validation = NoOutcome
    /\ now = Clock0
    /\ transaction_reference_counter = 1
    /\ outputs = <<>>

\* the end of a conversion to MT940: the statement is formatted, the text is
\* returned and the formatter's counter is left where the statement took it
ReturnMT940(result) ==
    /\ outcome' = result
    /\ IF result.kind = "statement"
       THEN /\ outputs' = << format_statement(result.statement, now).text >>
            /\ transaction_reference_counter' = format_statement(result.statement, now).counter
       ELSE UNCHANGED <<outputs, transaction_reference_counter>>
    /\ pc' = "done"
    /\ UNCHANGED <<bank, df, index, raw_transactions, i, processed_transactions, call,
                   validation, now>>

\* the end of a conversion to CAMT.053: the document is returned
ReturnCAMT053(result) ==
    /\ outcome' = result
    /\ IF result.kind = "statement"
       THEN outputs' = << camt_format_statement(result.statement, now) >>
       ELSE UNCHANGED outputs
    /\ pc' = "done"
    /\ UNCHANGED <<bank, df, index, raw_transactions, i, processed_transactions, call,
                   validation, now, transaction_reference_counter>>

\* the end of a call that formats nothing
Return(result) ==
    /\ outcome' = result
    /\ pc' = "done"
    /\ UNCHANGED <<bank, df, index, raw_transactions, i, processed_transactions, call,
                   validation, formatter_vars>>

ProcessFileToMT940 ==
    /\ pc = "call" /\ call.op = "process_file_to_mt940"
    /\ ReturnMT940(process_file(call, call.bank, df, now))

ProcessFileToCAMT053 ==
    /\ pc = "call" /\ call.op = "process_file_to_camt053"
    /\ ReturnCAMT053(process_file(call, call.bank, df, now))

ProcessCsvToMT940 ==
    /\ pc = "call" /\ call.op = "process_csv_to_mt940"
    /\ ReturnMT940(process_csv(call, df, now))

ProcessCsvToCAMT053 ==
    /\ pc = "call" /\ call.op = "process_csv_to_camt053"
    /\ ReturnCAMT053(process_file(call, LegacyBank, df, now))

GetTransactionSummary ==
    /\ pc = "call" /\ call.op = "get_transaction_summary"
    /\ Return(get_transaction_summary(call, df, now))

ValidateFileFormat ==
    /\ pc = "call" /\ call.op = "validate_file_format"
    /\ Return(processor_validate_file_format(call, df))

\* parser.get_account_info(file_path), called on the parser itself
GetAccountInfo ==
    /\ pc = "call" /\ call.op = "get_account_info"
    /\ Return(account_info_outcome(get_account_info(bank, df, now)))

CreateParser ==
    /\ pc = "call" /\ call.op = "create_parser"
    /\ Return(create_parser_outcome(call.bank))

GetAvailableBanks ==
    /\ pc = "call" /\ call.op = "get_available_banks"
    /\ Return([kind |-> "banks", banks |-> get_available_banks])

NextProc ==
    \/ ProcessFileToMT940
    \/ ProcessFileToCAMT053
    \/ ProcessCsvToMT940
    \/ ProcessCsvToCAMT053
    \/ GetTransactionSummary
    \/ ValidateFileFormat
    \/ GetAccountInfo
    \/ CreateParser
    \/ GetAvailableBanks

SpecProc == InitProc /\ [][NextProc]_vars
---------------------------------------------------------------------------
(* The formatters at work: one MT940Formatter and one CAMT053Formatter are   *)
(* handed the same AccountStatement several times while the clock runs.      *)

MaxFmtTransactions == 3
MaxFormats == 2

\* transactions without a reference (None and ''), with one, and one whose
\* amount has three decimals
FmtTransactions ==
    { Transaction([y |-> 2025, m |-> 3, d |-> 1], Dec(-1930, 2), <<"G","T","R","A","N","S","L","A","T","E",".","C","O","M">>,
                  <<"N","L","1","2","R","A","B","O","0","1","2","3","4","5","6","7","8","9">>, NoneStr, "CARD"),
      Transaction([y |-> 2025, m |-> 3, d |-> 2], Dec(125, 3),
                  <<"R","e","f","u","n","d"," ","o","f"," ","a"," ","v","e","r","y"," ","l","o","n","g"," ","d","e","s","c","r","i","p","t","i","o","n"," ","t","e","x","t">>, NoneStr, <<>>, "CREDIT"),
      Transaction([y |-> 2025, m |-> 3, d |-> 2], Dec(-725, 2), <<"S","p","o","t","i","f","y">>,
                  <<"N","L","1","2","R","A","B","O","0","1","2","3","4","5","6","7","8","9">>, <<"R","E","F","1","2","3">>, "DIRECT_DEBIT") }

\* the statement of the transactions, dated or not
FmtStatement(transactions, date) ==
    [account_number   |-> <<"N","L","1","1","T","E","S","T","0","0","0","0","0","0","0","0","0","1">>,
     statement_number |-> <<"C","C","2","0","2","5","0","3","0","1">>,
     opening_balance  |-> Dec(10050, 2),
     closing_balance  |-> calculate_closing_balance(Dec(10050, 2), transactions),
     transactions     |-> transactions,
     currency         |-> <<"E","U","R">>,
     date             |-> date]

FmtStatements ==
    { FmtStatement(ts, date) :
        ts \in SeqsUpTo(FmtTransactions, MaxFmtTransactions),
        date \in {None, Some(DateTime(2025, 3, 31, 0, 0, 0))} }

\* the instants the clock shows: a second later, and the next day
Clocks == << Clock0, DateTime(2025, 4, 1, 9, 31, 0), DateTime(2025, 4, 2, 0, 0, 0) >>

Output(formatter, document) == [formatter |-> formatter, document |-> document]

InitFmt ==
    /\ call \in {[op |-> "format_statement", statement |-> s] : s \in FmtStatements}
    /\ bank = "none"
    /\ df = [columns |-> {}, rows |-> <<>>]
    /\ pc = "format"
    /\ index = 1
    /\ raw_transactions = <<>>
    /\ i = 1
    /\ processed_transactions = <<>>
    /\ outcome = NoOutcome
    /\ validation = NoOutcome
    /\ now = Clocks[1]
    /\ transaction_reference_counter = 1
    /\ outputs = <<>>

\* MT940Formatter.format_statement(statement)
FormatStatementMT940 ==
    /\ pc = "format" /\ Len(outputs) < MaxFormats
    /\ outputs' = Append(outputs, Output("mt940", format_statement(call.statement, now).text))
    /\ transaction_reference_counter' = format_statement(call.statement, now).counter
    /\ UNCHANGED <<bank, df, pc, index, raw_transactions, i, processed_transactions, call,
                   outcome, validation, now>>

\* MT940Formatter._format_transaction(transaction), called on its own
FormatTransaction ==
    /\ pc = "format" /\ Len(outputs) < MaxFormats
    /\ \E k \in 1..Len(call.statement.transactions) :
          /\ outputs' = Append(outputs,
                Output("mt940_transaction",
                       format_transaction(call.statement.transactions[k],
                                          transaction_reference_counter)))
          /\ transaction_reference_counter' =
                next_counter(call.statement.transactions[k], transaction_reference_counter)
    /\ UNCHANGED <<bank, df, pc, index, raw_transactions, i, processed_transactions, call,
                   outcome, validation, now>>

\* CAMT053Formatter.format_statement(statement)
FormatStatementCAMT053 ==
    /\ pc = "format" /\ Len(outputs) < MaxFormats
    /\ outputs' = Append(outputs, Output("camt053", camt_format_statement(call.statement, now)))
    /\ UNCHANGED <<bank, df, pc, index, raw_transactions, i, processed_transactions, call,
                   outcome, validation, now, transaction_reference_counter>>

\* MT940Formatter(): a fresh instance takes the place of the used one
NewFormatter ==
    /\ pc = "format" /\ transaction_reference_counter # 1
    /\ transaction_reference_counter' = 1
    /\ UNCHANGED <<bank, df, pc, index, raw_transactions, i, processed_transactions, call,
                   outcome, validation, now, outputs>>

\* time passes
Tick ==
    /\ pc = "format"
    /\ \E k \in 1..(Len(Clocks) - 1) : now = Clocks[k] /\ now' = Clocks[k + 1]
    /\ UNCHANGED <<bank, df, pc, index, raw_transactions, i, processed_transactions, call,
                   outcome, validation, transaction_reference_counter, outputs>>

NextFmt ==
    \/ FormatStatementMT940
    \/ FormatTransaction
    \/ FormatStatementCAMT053
    \/ NewFormatter
    \/ Tick

SpecFmt == InitFmt /\ [][NextFmt]_vars

---------------------------------------------------------------------------
(* MT940Formatter._format_balance called on its own *)

\* balances: the two of the tests, zero, a whole number, thousandths that round
\* down, up and to even, a debit below half a cent, and large ones
BalanceAmounts ==
    { Dec(10050, 2), Dec(-5025, 2), Dec(0, 2), Dec(0, 0), Dec(5, 0), Dec(-7, 1),
      Dec(125, 3), Dec(135, 3), Dec(-1006, 3), Dec(-1, 3), Dec(999995, 3),
      Dec(214748364, 2), Dec(-99999999, 2) }

BalanceFields == {<<"6","0","F">>, <<"6","2","F">>, <<"6","4">>, <<"6","5">>}

BalanceDates ==
    { DateTime(2025, 3, 1, 0, 0, 0), DateTime(2025, 3, 31, 0, 0, 0),
      DateTime(2000, 12, 9, 23, 59, 59) }

BalanceCalls ==
    { [op |-> "_format_balance", field_code |-> f, amount |-> a, currency |-> c, date |-> d] :
        f \in BalanceFields, a \in BalanceAmounts, c \in {<<"E","U","R">>, <<"U","S","D">>}, d \in BalanceDates }

InitBalance ==
    /\ call \in BalanceCalls
    /\ bank = "none"
    /\ df = [columns |-> {}, rows |-> <<>>]
    /\ pc = "format"
    /\ index = 1
    /\ raw_transactions = <<>>
    /\ i = 1
    /\ processed_transactions = <<>>
    /\ outcome = NoOutcome
    /\ validation = NoOutcome
    /\ now = Clock0
    /\ transaction_reference_counter = 1
    /\ outputs = <<>>

\* MT940Formatter._format_balance(field_code, amount, currency, date)
FormatBalance ==
    /\ pc = "format"
    /\ pc' = "formatted"
    /\ outputs' = <<Output("mt940_balance",
                           format_balance(call.field_code, call.amount, call.currency, call.date))>>
    /\ UNCHANGED <<bank, df, index, raw_transactions, i, processed_transactions, call,
                   outcome, validation, now, transaction_reference_counter>>

NextBalance == FormatBalance

SpecBalance == InitBalance /\ [][NextBalance]_vars

---------------------------------------------------------------------------
(* The encoding loop of RabobankParser, RabobankNewParser and IcsParser:    *)
(*   for encoding in [...]: try: df = pd.read_csv(...); break               *)
(*                          except UnicodeDecodeError: continue             *)
(*   else: raise ValueError("Could not decode CSV file ...")                *)

MaxBytes == 3

\* the bytes files are made of: an ASCII letter, the lead byte and a
\* continuation byte of a two-byte UTF-8 sequence, the Latin-1 e-acute (a
\* three-byte lead in UTF-8), and a byte Windows-1252 does not define (a
\* continuation byte in UTF-8)
Bytes == {"61", "C3", "A9", "E9", "81"}

ContinuationBytes == {"A9", "81"}

\* the bytes are well-formed UTF-8
RECURSIVE utf8_decodes(_)
utf8_decodes(s) ==
    IF s = <<>> THEN TRUE
    ELSE CASE Head(s) = "61" -> utf8_decodes(Tail(s))
           [] Head(s) = "C3" ->
                 /\ Len(s) >= 2 /\ s[2] \in ContinuationBytes
                 /\ utf8_decodes(SubSeq(s, 3, Len(s)))
           [] Head(s) = "E9" ->
                 /\ Len(s) >= 3 /\ s[2] \in ContinuationBytes /\ s[3] \in ContinuationBytes
                 /\ utf8_decodes(SubSeq(s, 4, Len(s)))
           [] OTHER -> FALSE

\* bytes.decode(encoding) does not raise UnicodeDecodeError: Latin-1 maps every
\* byte, Windows-1252 lacks 0x81, UTF-8-SIG is UTF-8 with an optional mark
decodes(s, encoding) ==
    CASE encoding = "utf-8"     -> utf8_decodes(s)
      [] encoding = "latin-1"   -> TRUE
      [] encoding = "cp1252"    -> \A k \in 1..Len(s) : s[k] # "81"
      [] encoding = "utf-8-sig" -> utf8_decodes(s)

\* mutant: Latin-1 comes first
encodings_latin1_first(b) ==
    IF b = "ics" THEN <<"latin-1", "utf-8", "cp1252", "utf-8-sig">>
    ELSE <<"latin-1", "utf-8", "cp1252">>

\* the list the loop runs over
encodings(b) ==
    IF b = "ics" THEN <<"utf-8", "latin-1", "cp1252", "utf-8-sig">>
    ELSE <<"utf-8", "latin-1", "cp1252">>

DecodeBanks == {"rabobank_old", "rabobank_new", "ics"}

DecodeOps == {"parse_file", "get_account_info", "validate_file_format"}

\* the files: every byte string of up to MaxBytes bytes
ByteFiles == {[bytes |-> s] : s \in SeqsUpTo(Bytes, MaxBytes)}

InitDecode ==
    /\ bank \in DecodeBanks
    /\ call \in {[op |-> op] : op \in DecodeOps}
    /\ df \in ByteFiles
    /\ pc = "decode"
    /\ index = 1
    /\ raw_transactions = <<>>
    /\ i = 1
    /\ processed_transactions = <<>>
    /\ outcome = NoOutcome
    /\ validation = NoOutcome
    /\ now = Clock0
    /\ transaction_reference_counter = 1
    /\ outputs = <<>>

\* an error ends the method: parse_file and get_account_info raise it,
\* validate_file_format returns it in its result
Failed(error) ==
    IF call.op = "validate_file_format" THEN [kind |-> "invalid", error |-> error]
    ELSE [kind |-> "raised", error |-> error]

\* one pass of the loop body: read_csv of a file of no bytes raises
\* EmptyDataError, which the loop does not catch
TryEncodingEmpty ==
    /\ pc = "decode" /\ index <= Len(encodings(bank))
    /\ df.bytes = <<>>
    /\ outputs' = Append(outputs, encodings(bank)[index])
    /\ pc' = "failed"
    /\ outcome' = Failed("EmptyDataError")
    /\ UNCHANGED <<bank, df, index, raw_transactions, i, processed_transactions, call,
                   validation, now, transaction_reference_counter>>

\* one pass of the loop body: read_csv succeeds and the loop is left by break
TryEncodingBreak ==
    /\ pc = "decode" /\ index <= Len(encodings(bank))
    /\ df.bytes # <<>>
    /\ decodes(df.bytes, encodings(bank)[index])
    /\ outputs' = Append(outputs, encodings(bank)[index])
    /\ pc' = "read"
    /\ outcome' = [kind |-> "decoded", encoding |-> encodings(bank)[index]]
    /\ UNCHANGED <<bank, df, index, raw_transactions, i, processed_transactions, call,
                   validation, now, transaction_reference_counter>>

\* one pass of the loop body: UnicodeDecodeError is caught and the loop goes
\* on; when the list is used up the else branch gives 'Could not decode'
TryEncodingContinue ==
    /\ pc = "decode" /\ index <= Len(encodings(bank))
    /\ df.bytes # <<>>
    /\ ~decodes(df.bytes, encodings(bank)[index])
    /\ outputs' = Append(outputs, encodings(bank)[index])
    /\ index' = index + 1
    /\ IF index + 1 > Len(encodings(bank))
       THEN /\ pc' = "failed"
            /\ outcome' = Failed("Could not decode CSV file with any supported encoding")
       ELSE UNCHANGED <<pc, outcome>>
    /\ UNCHANGED <<bank, df, raw_transactions, i, processed_transactions, call,
                   validation, now, transaction_reference_counter>>

NextDecode ==
    \/ TryEncodingEmpty
    \/ TryEncodingBreak
    \/ TryEncodingContinue

SpecDecode == InitDecode /\ [][NextDecode]_vars

---------------------------------------------------------------------------
(* Claims about the TransactionProcessor *)

RECURSIVE SumPosMills(_)
SumPosMills(out) ==
    IF out = <<>> THEN 0
    ELSE (IF Mills(Head(out).amount) > 0 THEN Mills(Head(out).amount) ELSE 0)
         + SumPosMills(Tail(out))

RECURSIVE SumNegMills(_)
SumNegMills(out) ==
    IF out = <<>> THEN 0
    ELSE (IF Mills(Head(out).amount) < 0 THEN Mills(Head(out).amount) ELSE 0)
         + SumNegMills(Tail(out))

\* C1: the AccountStatement built by process_file_to_mt940, process_file_to_camt053
\* and process_csv_to_mt940 holds the list parse_file returned, its opening balance
\* is the caller's override or 0.00, and its closing balance is the opening balance
\* plus the sum of all transaction amounts, exactly.
C1_ClosingBalance ==
    (pc = "done" /\ outcome.kind = "statement") =>
        /\ call.op \in {"process_file_to_mt940", "process_file_to_camt053",
                        "process_csv_to_mt940"}
        /\ outcome.statement.transactions = parse_file(bank, df).transactions
        /\ Mills(outcome.statement.opening_balance) =
              (IF call.opening_balance.is_none THEN 0 ELSE Mills(call.opening_balance.value))
        /\ Mills(outcome.statement.closing_balance) =
              Mills(outcome.statement.opening_balance)
              + SumOutMills(outcome.statement.transactions)

\* process_csv_to_mt940 with the opening balance 100.50 on a file of one merged
\* purchase (-19.69): the closing balance is 80.81
C1_Witness ==
    /\ pc = "done" /\ outcome.kind = "statement"
    /\ call.op = "process_csv_to_mt940"
    /\ call.opening_balance = Some(Dec(10050, 2))
    /\ Len(outcome.statement.transactions) = 1
    /\ outcome.statement.transactions[1].amount = Dec(-1969, 2)
    /\ outcome.statement.closing_balance = Dec(8081, 2)

\* the list a finished call worked on
ListOfOutcome ==
    IF outcome.kind = "statement" THEN outcome.statement.transactions ELSE outcome.transactions

\* C9: calculate_totals gives total_credits = the sum of the amounts > 0,
\* total_debits = the sum of the amounts < 0, net_total = their sum = the sum of
\* all amounts and transaction_count = the length of the list, on the list of every
\* parser; get_transaction_summary reports these values for the list parse_file
\* returned.
C9_Totals ==
    (pc = "done" /\ outcome.kind \in {"statement", "summary"}) =>
        /\ Mills(calculate_totals(ListOfOutcome).total_credits) = SumPosMills(ListOfOutcome)
        /\ Mills(calculate_totals(ListOfOutcome).total_debits) = SumNegMills(ListOfOutcome)
        /\ Mills(calculate_totals(ListOfOutcome).net_total) =
              SumPosMills(ListOfOutcome) + SumNegMills(ListOfOutcome)
        /\ Mills(calculate_totals(ListOfOutcome).net_total) = SumOutMills(ListOfOutcome)
        /\ calculate_totals(ListOfOutcome).transaction_count = Len(ListOfOutcome)
        /\ outcome.kind = "summary" =>
              /\ outcome.transactions = parse_file(bank, df).transactions
              /\ Mills(outcome.totals.total_credits) = SumPosMills(outcome.transactions)
              /\ Mills(outcome.totals.total_debits) = SumNegMills(outcome.transactions)
              /\ Mills(outcome.totals.net_total) = SumOutMills(outcome.transactions)
              /\ outcome.totals.transaction_count = Len(outcome.transactions)

\* a summary of an ICS file with a purchase (-121.00) and a settlement (+1304.91):
\* credits 1304.91, debits -121.00, net 1183.91, count 2
C9_Witness ==
    /\ pc = "done" /\ outcome.kind = "summary"
    /\ bank = "ics"
    /\ outcome.totals.transaction_count = 2
    /\ outcome.totals.total_credits = Dec(130491, 2)
    /\ outcome.totals.total_debits = Dec(-12100, 2)
    /\ outcome.totals.net_total = Dec(118391, 2)

---------------------------------------------------------------------------
(* Claims about ParserFactory and the calls of TransactionProcessor *)

\* two texts with the same letters, whatever their case
SameIgnoringCase(a, b) ==
    /\ Len(a) = Len(b)
    /\ \A k \in 1..Len(a) : Lower(<<a[k]>>) = Lower(<<b[k]>>)

IsRegistered(name) == \E key \in ParserRegistry : SameIgnoringCase(name, key)

Quoted(text) == <<"'">> \o text \o <<"'">>

\* the ValueError of create_parser for the name: it names the name and lists
\* every key of the registry
IsUnknownBankError(result, name) ==
    /\ result.kind = "raised"
    /\ result.error = "ValueError"
    /\ Contains(result.message, <<"U","n","k","n","o","w","n"," ","b","a","n","k"," ">> \o Quoted(name))
    /\ \A key \in ParserRegistry : Contains(result.message, Quoted(key))

\* the calls that hand their bank argument to create_parser
TakesBank ==
    call.op \in {"process_file_to_mt940", "process_file_to_camt053",
                 "get_transaction_summary", "validate_file_format", "create_parser"}

\* C17: create_parser is case-insensitive and fails closed.  For a name that is a
\* registry key in any letter case it returns the parser class of that key; for
\* any other name it raises the ValueError that names the name and lists all
\* keys, and every call that takes a bank ends in that error whatever the file
\* is, readable or not.
C17_CreateParser ==
    (pc = "done" /\ TakesBank) =>
        /\ (call.op = "create_parser" /\ IsRegistered(call.bank)) =>
              \E key \in ParserRegistry :
                 /\ SameIgnoringCase(call.bank, key)
                 /\ outcome = [kind |-> "parser", parser |-> KeyOf(key)]
        /\ ~IsRegistered(call.bank) => IsUnknownBankError(outcome, call.bank)

\* create_parser('abn') raised with the full message, and create_parser of a key
\* in mixed case is told apart from it
C17_Witness ==
    /\ pc = "done" /\ call.op = "create_parser" /\ call.bank = <<"a","b","n">>
    /\ outcome.kind = "raised"
    /\ outcome.message =
          <<"U","n","k","n","o","w","n"," ","b","a","n","k"," ","'","a","b","n","'","."," ","A","v","a","i","l","a","b","l","e"," ","b","a","n","k","s",":"," ","[","'","r","a","b","o","b","a","n","k","_","o","l","d","'",","," ","'","r","a","b","o","b","a","n","k","_","n","e","w","'",","," ","'","i","n","g","'",","," ","'","a","m","e","x","'",","," ","'","i","c","s","'",","," ","'","e","x","c","e","l","'","]">>
    /\ IsRegistered(<<"R","a","b","o","b","a","n","k","_","O","l","d">>)

\* a Rabobank CSV export with every column and at least one row
IsValidRabobankCsv(d) ==
    /\ is_readable(d)
    /\ d.columns = DutchHeader
    /\ Len(d.rows) > 0

\* C19 as stated: the key 'rabobank' is resolvable.  get_available_banks lists
\* it, create_parser('rabobank') returns a Rabobank parser, and
\* process_csv_to_camt053 never ends in the unknown-bank error and returns a
\* CAMT.053 document for a valid Rabobank CSV.
C19_Original ==
    pc = "done" =>
        /\ call.op = "get_available_banks" => LegacyBank \in DOMAIN outcome.banks
        /\ (call.op = "create_parser" /\ call.bank = LegacyBank) =>
              /\ outcome.kind = "parser"
              /\ outcome.parser \in {"rabobank_old", "rabobank_new"}
        /\ call.op = "process_csv_to_camt053" =>
              /\ ~IsUnknownBankError(outcome, LegacyBank)
              /\ IsValidRabobankCsv(df) => (outcome.kind = "statement" /\ Len(outputs) = 1)

\* a structured result: valid, or not valid with an error message
IsStructuredResult(result) ==
    /\ result.kind = "validation"
    /\ result.valid \in BOOLEAN
    /\ ~result.valid => (result.error # NoneStr /\ result.error # <<>>)

\* C11 as stated: validation never raises.  For every bank key and every file
\* (missing, undecodable, wrong columns, empty, malformed rows)
\* TransactionProcessor.validate_file_format returns a structured result, with
\* valid = false and an error message on any failure, and propagates no exception.
C11_Original ==
    (pc = "done" /\ call.op = "validate_file_format") =>
        /\ IsStructuredResult(outcome)
        /\ ~is_readable(df) => ~outcome.valid

\* the part of C11 that the parsers keep: with a key of the registry the result
\* is structured for every file
C11_RegisteredKey ==
    (pc = "done" /\ call.op = "validate_file_format" /\ IsRegistered(call.bank)) =>
        /\ IsStructuredResult(outcome)
        /\ ~is_readable(df) => ~outcome.valid

IsConversion ==
    call.op \in {"process_file_to_mt940", "process_file_to_camt053",
                 "process_csv_to_mt940", "process_csv_to_camt053"}

\* the conversion came to its end and built a statement
Converted == pc = "done" /\ IsConversion /\ outcome.kind = "statement"

\* 'CC' and the date as YYYYMMDD
DefaultStatementNumber(date) ==
    <<"C","C">> \o ZeroPad(date.y, 4) \o ZeroPad(date.m, 2) \o ZeroPad(date.d, 2)

\* the statement holds the opening balance given, or 0.00 when none is given
OpeningBalanceAsGiven ==
    outcome.statement.opening_balance =
        IF call.opening_balance.is_none THEN Dec(0, 2) ELSE call.opening_balance.value

\* C18 as stated: a caller-supplied account_number, statement_number or
\* opening_balance is the value placed in the AccountStatement; when an override
\* is absent the account number is the one of get_account_info, the statement
\* number is 'CC' and the derived start date as YYYYMMDD, and the opening
\* balance is 0.00.
C18_Original ==
    Converted =>
        /\ outcome.statement.account_number =
              IF call.account_number.is_none
              THEN get_account_info(bank, df, now).account_number
              ELSE call.account_number.value
        /\ outcome.statement.statement_number =
              IF call.statement_number.is_none
              THEN DefaultStatementNumber(get_account_info(bank, df, now).start_date)
              ELSE call.statement_number.value
        /\ OpeningBalanceAsGiven

IsGiven(text) == ~text.is_none /\ Len(text.value) > 0

\* C18 amended: a non-empty account_number or statement_number and any
\* opening_balance, zero included, is the value placed in the AccountStatement;
\* an account_number or statement_number that is absent or the empty string
\* gives the derived value (the account number of get_account_info, 'CC' and
\* the derived start date as YYYYMMDD), and an absent opening_balance gives 0.00.
C18_Overrides ==
    Converted =>
        /\ outcome.statement.account_number =
              IF IsGiven(call.account_number)
              THEN call.account_number.value
              ELSE get_account_info(bank, df, now).account_number
        /\ outcome.statement.statement_number =
              IF IsGiven(call.statement_number)
              THEN call.statement_number.value
              ELSE DefaultStatementNumber(get_account_info(bank, df, now).start_date)
        /\ OpeningBalanceAsGiven

\* all three overrides were given, the opening balance as 0, and the statement
\* holds them; its closing balance is the sum of the two rows
C18_Witness ==
    /\ Converted
    /\ call.account_number = Some(<<"N","L","1","1","T","E","S","T","0","0","0","0","0","0","0","0","0","1">>)
    /\ call.statement_number = Some(<<"C","C","2","0","2","4","0","1","3","1">>)
    /\ call.opening_balance = Some(Dec(0, 0))
    /\ outcome.statement.account_number = <<"N","L","1","1","T","E","S","T","0","0","0","0","0","0","0","0","0","1">>
    /\ outcome.statement.statement_number = <<"C","C","2","0","2","4","0","1","3","1">>
    /\ outcome.statement.opening_balance = Dec(0, 0)
    /\ Len(outcome.statement.transactions) = 2
    /\ get_account_info(bank, df, now).account_number # <<"N","L","1","1","T","E","S","T","0","0","0","0","0","0","0","0","0","1">>

\* the file has every column the parser of the call reads by name
HasRequiredColumns(b, d) ==
    CASE b \in {"rabobank_old", "csv"} -> DutchHeader \subseteq d.columns
      [] b = "rabobank_new" ->
            EnglishColumns \subseteq d.columns \/ DutchHeader \subseteq d.columns
      [] b = "ics"  -> ics_required_columns \subseteq d.columns
      [] b = "amex" -> TRUE

\* the call got a transaction list from parse_file
ListReturned == pc = "done" /\ outcome.kind \in {"summary", "statement"}

\* C12 as stated: parse_file returns a transaction list only for a file that
\* could be decoded, has every required column and has at least one data row;
\* for any other file it fails and returns no list, empty or partial.
C12_Original ==
    ListReturned =>
        /\ is_readable(df)
        /\ HasRequiredColumns(bank, df)
        /\ Len(df.rows) > 0

\* what the parsers do keep: a file that cannot be opened or is zero bytes long
\* ends every call in an error
C12_UnopenableFileRaises ==
    (pc = "done" /\ IsConversion /\ ~is_readable(df) /\ df.error # "UnicodeDecodeError") =>
        outcome.kind = "raised"

\* the legacy parser read the file to its end, one way or the other
LegacyDone == bank = "csv" /\ pc \in {"parsed", "raised"}

\* what process_csv_to_mt940 and process_file_to_mt940 with 'rabobank_old' make
\* of the file, without overrides
LegacyPath == process_csv(Call("process_csv_to_mt940", <<"c","s","v">>, NoOverrides), df, now)
BankPath ==
    process_file(Call("process_file_to_mt940", <<"r","a","b","o","b","a","n","k","_","o","l","d">>, NoOverrides),
                 <<"r","a","b","o","b","a","n","k","_","o","l","d">>, df, now)

---------------------------------------------------------------------------
(* Claims about get_account_info *)

\* the dates of the date cells of the file that parse in the dialect of the
\* parser, whatever else the row holds
ParseableDates(b, d) ==
    { LET v == ParseDate(IF b = "rabobank_new" THEN "%Y-%m-%d" ELSE "%d-%m-%Y",
                         Strip(Str(d.rows[k][IF "Date" \in d.columns THEN "Date" ELSE "Datum"]))).val
      IN  DateTime(v.y, v.m, v.d, 0, 0, 0) :
         k \in {m \in 1..Len(d.rows) :
                   IsDateOfDialect(b, Strip(Str(d.rows[m][IF "Date" \in d.columns THEN "Date"
                                                       ELSE "Datum"])))} }

Earliest(dates) == CHOOSE a \in dates : \A x \in dates : DateLE(a, x)
Latest(dates) == CHOOSE a \in dates : \A x \in dates : DateLE(x, a)

\* the range stated: the earliest and the latest parseable date, and the
\* current time for both when there is none
RangeAsStated ==
    /\ outcome.kind = "account_info"
    /\ IF ParseableDates(bank, df) = {}
       THEN outcome.start_date = now /\ outcome.end_date = now
       ELSE /\ outcome.start_date = Earliest(ParseableDates(bank, df))
            /\ outcome.end_date = Latest(ParseableDates(bank, df))

\* get_account_info of a Rabobank parser or of CSVParser has ended on a file
\* that has the five columns
AccountInfoDone ==
    /\ pc = "done" /\ call.op = "get_account_info"
    /\ bank \in RuleBanks
    /\ is_readable(df) /\ HasAllColumns

\* C21 as stated: get_account_info returns the earliest and the latest of all
\* parseable date cells, rows that parse_file drops or merges included, and for
\* a file with no row with a parseable date it returns the current time for both
\* and does not raise.
C21_Original == AccountInfoDone => RangeAsStated

\* what holds of C21: the same for every file with at least one data row, and
\* for RabobankParser also without one
C21_RangeOfFilesWithRows ==
    (AccountInfoDone /\ (Len(df.rows) > 0 \/ bank = "rabobank_old")) => RangeAsStated

---------------------------------------------------------------------------
(* Claims about the formatters *)

\* the lines of an MT940 text
LinesOf(text) == Split(text, "\n")

\* a statement has five lines before its transactions and three lines for each
\* transaction: field 61, the counter account line and field 86
Line61(text, k) == LinesOf(text)[3 * k + 3]
Line86(text, k) == LinesOf(text)[3 * k + 5]

EndsWith(s, tail) == Len(s) >= Len(tail) /\ SubSeq(s, Len(s) - Len(tail) + 1, Len(s)) = tail

StartsWith(s, head) == Len(s) >= Len(head) /\ SubSeq(s, 1, Len(head)) = head

HasReference(t) == t.reference # NoneStr /\ Len(t.reference) > 0

\* how many of the first k transactions have no reference
UnreferencedUpTo(transactions, k) ==
    Cardinality({m \in 1..k : ~HasReference(transactions[m])})

\* the number written as 11 digits
Padded11(n) == [k \in 1..(11 - Len(NatStr(n))) |-> "0"] \o NatStr(n)

\* the reference field 61 of the k-th transaction of the statement must end with
ExpectedReference(transactions, k) ==
    <<"N","O","N","R","E","F","/","/">> \o
    (IF HasReference(transactions[k]) THEN transactions[k].reference
     ELSE Padded11(UnreferencedUpTo(transactions, k)))

\* C16: the reference counter of MT940Formatter is statement-scoped.  In every
\* text format_statement returns, the n-th transaction without a reference is
\* written as 'NONREF//' and n padded to 11 digits and a transaction with a
\* reference is written with it and uses up no number, whatever was formatted on
\* the instance before.
C16_StatementScopedCounter ==
    \A o \in 1..Len(outputs) :
       outputs[o].formatter = "mt940" =>
          \A k \in 1..Len(call.statement.transactions) :
             EndsWith(Line61(outputs[o].document, k),
                      ExpectedReference(call.statement.transactions, k))

\* _format_transaction had taken number 1 on the instance, and the statement
\* formatted after it still numbers its transactions 1 and 2 around a referenced one
C16_Witness ==
    /\ Len(outputs) = 2
    /\ outputs[1].formatter = "mt940_transaction"
    /\ EndsWith(outputs[1].document, <<"N","O","N","R","E","F","/","/","0","0","0","0","0","0","0","0","0","0","1">> \o <<"\n">> \o <<"0","0","0","0","0","0","0","0","0","0">>)
    /\ outputs[2].formatter = "mt940"
    /\ Len(call.statement.transactions) = 3
    /\ EndsWith(Line61(outputs[2].document, 1), <<"N","O","N","R","E","F","/","/","0","0","0","0","0","0","0","0","0","0","1">>)
    /\ EndsWith(Line61(outputs[2].document, 2), <<"N","O","N","R","E","F","/","/","R","E","F","1","2","3">>)
    /\ EndsWith(Line61(outputs[2].document, 3), <<"N","O","N","R","E","F","/","/","0","0","0","0","0","0","0","0","0","0","2">>)
    /\ transaction_reference_counter = 3

\* C15 as stated: for both formatters, formatting the same AccountStatement
\* twice, on the same instance or on a fresh one, yields identical output,
\* whenever the two calls are made.
C15_Original ==
    \A a, b \in 1..Len(outputs) :
       (outputs[a].formatter = outputs[b].formatter
            /\ outputs[a].formatter \in {"mt940", "camt053"}) =>
          outputs[a].document = outputs[b].document

\* what holds of C15: the MT940 text of a statement that carries its date is
\* the same at every call
C15_DatedMT940 ==
    \A a, b \in 1..Len(outputs) :
       (outputs[a].formatter = "mt940" /\ outputs[b].formatter = "mt940"
            /\ ~call.statement.date.is_none) =>
          outputs[a].document = outputs[b].document

\* the DataFrame the parser of the call read
FrameRead == read_file(bank, df).df

\* the Transaction can have come from the row at position r of the file: it has
\* the row's date and the row's reference (Rabobank), the row's negated amount
\* (ICS) or the number of the row (AMEX)
DerivedFrom(t, d, r) ==
    CASE bank \in {"rabobank_old", "rabobank_new", "csv"} ->
            /\ t.reference =
                  Strip(Str(d.rows[r][column_of(bank, d.columns, "Transaction Reference")]))
            /\ ParseDate(date_format(bank),
                         Strip(Str(d.rows[r][column_of(bank, d.columns, "Date")]))).ok
            /\ t.date = ParseDate(date_format(bank),
                           Strip(Str(d.rows[r][column_of(bank, d.columns, "Date")]))).val
      [] bank = "ics" ->
            /\ ParseDate("%d-%m-%Y", Strip(Str(d.rows[r]["Transactiedatum"]))).ok
            /\ t.date = ParseDate("%d-%m-%Y", Strip(Str(d.rows[r]["Transactiedatum"]))).val
            /\ ParseDecimal(ics_amount_str(d.rows[r]["Bedrag"])).ok
            /\ Mills(t.amount) \in
                  {Mills(ParseDecimal(ics_amount_str(d.rows[r]["Bedrag"])).val),
                   0 - Mills(ParseDecimal(ics_amount_str(d.rows[r]["Bedrag"])).val)}
      [] bank = "amex" -> t.reference = <<"4", "9">> \o ZeroPad(r, 9)

\* the transactions can be laid on the rows of the file in rising order
InFileOrder(transactions, d) ==
    \E f \in [1..Len(transactions) -> 1..Len(d.rows)] :
       /\ \A k \in 1..Len(transactions) : DerivedFrom(transactions[k], d, f[k])
       /\ \A k \in 1..(Len(transactions) - 1) : f[k] < f[k + 1]

\* the Stmt element of a CAMT.053 document and the Ntry of its k-th transaction
StmtOf(document) == document.children[1].children[2]
NtryOf(document, k) == StmtOf(document).children[4 + k]

\* the MT940 text lists the transactions in the order of the statement
MT940InOrder(text, transactions) ==
    /\ Len(LinesOf(text)) = 8 + 3 * Len(transactions)
    /\ \A k \in 1..Len(transactions) :
          /\ StartsWith(Line61(text, k),
                        <<":","6","1",":">> \o strftime_yymmdd(transactions[k].date)
                        \o (IF transactions[k].amount.c >= 0 THEN <<"C">> ELSE <<"D">>))
          /\ Line86(text, k) = format_transaction_info(transactions[k])

\* the CAMT.053 document lists the transactions in the order of the statement
CAMT053InOrder(document, transactions) ==
    /\ Len(StmtOf(document).children) = 4 + Len(transactions)
    /\ \A k \in 1..Len(transactions) :
          /\ NtryOf(document, k).tag = "Ntry"
          /\ NtryOf(document, k).children[1].text =
                camt_amount_str(Hundredths(transactions[k].amount))
          /\ NtryOf(document, k).children[4].children[1].text =
                strftime_iso(transactions[k].date)
          /\ NtryOf(document, k).children[6].text =
                (IF HasReference(transactions[k]) THEN transactions[k].reference
                 ELSE <<"R","A","B","O">> \o ZeroPad(k, 10))

---------------------------------------------------------------------------
(* Claims about the fields of the MT940 text *)

TwoDigits(n) == <<DigitChars[((n \div 10) % 10) + 1], DigitChars[(n % 10) + 1]>>

\* the line is ':<field>:<flag><YYMMDD><currency><digits>' for the balance: flag
\* C for an amount >= 0 and D below, digits without a sign, the integer part zero
\* padded to 9 digits or longer, a comma, two fractional digits, and the number
\* written is the absolute value to the nearest hundredth
IsBalanceLine(line, field_code, amount, currency, date) ==
    LET head   == <<":">> \o field_code \o <<":">>
        rest   == SubSeq(line, Len(head) + 1, Len(line))
        after  == 7 + Len(currency)
        digits == SubSeq(rest, after + 1, Len(rest))
        whole  == SubSeq(digits, 1, Len(digits) - 3)
        cents  == SubSeq(digits, Len(digits) - 1, Len(digits))
    IN  /\ StartsWith(line, head)
        /\ Len(rest) >= after + 12
        /\ rest[1] = (IF Mills(amount) >= 0 THEN "C" ELSE "D")
        /\ SubSeq(rest, 2, 7) = TwoDigits(date.y) \o TwoDigits(date.m) \o TwoDigits(date.d)
        /\ SubSeq(rest, 8, after) = currency
        /\ digits[Len(digits) - 2] = ","
        /\ AllDigits(whole) /\ AllDigits(cents)
        /\ Len(whole) >= 9
        /\ Len(whole) > 9 => whole[1] # "0"
        /\ AbsInt(10 * (100 * DigitsVal(whole) + DigitsVal(cents)) - AbsInt(Mills(amount))) <= 5

\* C23: _format_balance(field, amount, currency, date) returns
\* ':<field>:<flag><YYMMDD><currency><digits>' with flag C exactly when
\* amount >= 0 (zero is a credit), and digits the absolute value with the
\* integer part zero-padded to at least 9 digits, a comma and exactly 2
\* fractional digits, without a sign.
C23_BalanceLine ==
    pc = "formatted" =>
        IsBalanceLine(outputs[1].document, call.field_code, call.amount, call.currency, call.date)

\* 100.50 on 1 March 2025 gave :60F:C250301EUR000000100,50
C23_Witness ==
    /\ pc = "formatted"
    /\ call.field_code = <<"6","0","F">> /\ call.amount = Dec(10050, 2)
    /\ outputs[1].document = <<":","6","0","F",":","C","2","5","0","3","0","1","E","U","R","0","0","0","0","0","0","1","0","0",",","5","0">>

\* the three digits of the 'N' transaction code of a field 61 whose amount has
\* nine integer digits, and the three digits after '/TRCD/' of a field 86
CodeOf61(line) == SubSeq(line, 25, 27)
CodeOf86(line) == SubSeq(line, 11, 13)

\* C30 as stated: in every MT940 text, for every transaction, the code after
\* '/TRCD/' in field 86 equals the digits of the transaction code in field 61.
C30_Original ==
    \A o \in 1..Len(outputs) :
       outputs[o].formatter = "mt940" =>
          \A k \in 1..Len(call.statement.transactions) :
             /\ StartsWith(Line86(outputs[o].document, k), <<":","8","6",":","/","T","R","C","D","/">>)
             /\ SubSeq(Line61(outputs[o].document, k), 24, 24) = <<"N">>
             /\ CodeOf86(Line86(outputs[o].document, k)) = CodeOf61(Line61(outputs[o].document, k))

\* what holds of C30: the two codes of a CARD transaction are both 002
C30_CardCodesAgree ==
    \A o \in 1..Len(outputs) :
       outputs[o].formatter = "mt940" =>
          \A k \in 1..Len(call.statement.transactions) :
             call.statement.transactions[k].transaction_type = "CARD" =>
                /\ CodeOf61(Line61(outputs[o].document, k)) = <<"0","0","2">>
                /\ CodeOf86(Line86(outputs[o].document, k)) = <<"0","0","2">>

\* field 86 holds the upper-cased description as a NAME of at most 25 characters
\* and, only when characters are left over, as a REMI remainder
InfoLineSplits(line, description) ==
    LET u    == Upper(description)
        name == SubSeq(u, 1, Min(25, Len(u)))
        remi == SubSeq(u, 26, Len(u))
    IN  /\ StartsWith(line, <<":","8","6",":","/","T","R","C","D","/">>)
        /\ SubSeq(line, 14, Len(line)) =
              <<"/","B","E","N","M","/","/","N","A","M","E","/">> \o name \o (IF remi # <<>> THEN <<"/","R","E","M","I","/">> \o remi ELSE <<>>)

\* the value of the NAME tag of field 86, up to '/REMI/' or the end of the line
NameIsEmpty(line) ==
    \/ Len(line) = 25
    \/ SubSeq(line, 26, Len(line)) = <<"/","R","E","M","I","/">>
    \/ StartsWith(SubSeq(line, 26, Len(line)), <<"/","R","E","M","I","/">>)

ConvertedToMT940 ==
    Converted /\ call.op \in {"process_file_to_mt940", "process_csv_to_mt940"}

\* C25 as stated: in the MT940 text of a parsed file, field 86 of every
\* transaction holds the split description, '/REMI/' only with a non-empty
\* remainder, and a NAME that is not empty.
C25_Original ==
    ConvertedToMT940 =>
        \A k \in 1..Len(outcome.statement.transactions) :
            /\ InfoLineSplits(Line86(outputs[1], k), outcome.statement.transactions[k].description)
            /\ ~NameIsEmpty(Line86(outputs[1], k))

\* what holds of C25: the split, and no '/REMI/' tag without a remainder
C25_NoEmptyRemi ==
    ConvertedToMT940 =>
        \A k \in 1..Len(outcome.statement.transactions) :
            /\ InfoLineSplits(Line86(outputs[1], k), outcome.statement.transactions[k].description)
            /\ ~EndsWith(Line86(outputs[1], k), <<"/","R","E","M","I","/">>)

---------------------------------------------------------------------------
(* Claims about the encoding loop *)

\* the order stated: UTF-8, Latin-1, Windows-1252, then UTF-8-SIG for ICS
StatedOrder(b) ==
    IF b = "ics" THEN <<"utf-8", "latin-1", "cp1252", "utf-8-sig">>
    ELSE <<"utf-8", "latin-1", "cp1252">>

\* the first candidate of the stated order that decodes the bytes; it depends
\* on the parser and the file, not on the method called
FirstThatDecodes(b, s) ==
    StatedOrder(b)[CHOOSE k \in 1..Len(StatedOrder(b)) :
                      /\ decodes(s, StatedOrder(b)[k])
                      /\ \A m \in 1..(k - 1) : ~decodes(s, StatedOrder(b)[m])]

\* C27: the candidates are tried one after the other in the stated order; every
\* candidate tried before the last one tried failed to decode; the loop stops at
\* the first candidate that decodes and that one is used, whichever of
\* parse_file, get_account_info and validate_file_format runs; 'could not
\* decode' comes only after every candidate has failed.
C27_EncodingRetry ==
    /\ Len(outputs) <= Len(StatedOrder(bank))
    /\ \A k \in 1..Len(outputs) : outputs[k] = StatedOrder(bank)[k]
    /\ df.bytes # <<>> =>
          \A k \in 1..(Len(outputs) - 1) : ~decodes(df.bytes, outputs[k])
    /\ pc = "read" =>
          /\ outcome.kind = "decoded"
          /\ outcome.encoding = outputs[Len(outputs)]
          /\ outcome.encoding = FirstThatDecodes(bank, df.bytes)
    /\ (pc = "failed" /\ outcome.error = "Could not decode CSV file with any supported encoding") =>
          /\ Len(outputs) = Len(StatedOrder(bank))
          /\ \A k \in 1..Len(outputs) : ~decodes(df.bytes, outputs[k])

\* get_account_info of IcsParser read a file holding the Latin-1 byte E9 with
\* Latin-1 after UTF-8 had failed, and tried nothing after it
C27_Witness ==
    /\ bank = "ics" /\ call.op = "get_account_info"
    /\ df.bytes = <<"61", "E9">>
    /\ pc = "read"
    /\ outputs = <<"utf-8", "latin-1">>
    /\ outcome.encoding = "latin-1"

=============================================================================
